---- MODULE Spec2Model ----
(***************************************************************************)
(* Emergency alert distribution: the delivery sub-service                  *)
(* (supabase/functions/send-emergency-alert/index.ts).                     *)
(*                                                                         *)
(* One request is handled by the serve handler.  The handler runs          *)
(* synchronously from the parsed body to `await Promise.allSettled`, so    *)
(* promises settle only while the handler is suspended at that await.      *)
(* The handler may be invoked again with the same request (Resubmit).      *)
(***************************************************************************)
EXTENDS Integers, Sequences, FiniteSets, TLC

\* Longest recipients list of a request.
MaxRecipients == 2

Channels == {"SMS", "Email"}

\* Environment variables in the order the handler tests them.
TwilioVars == <<"TWILIO_ACCOUNT_SID", "TWILIO_AUTH_TOKEN", "TWILIO_PHONE_NUMBER">>
SmtpVars == <<"SMTP_HOST", "FROM_EMAIL", "SMTP_USER", "SMTP_PASS">>

SeqRange(s) == {s[i] : i \in 1..Len(s)}

EnvVars == SeqRange(TwilioVars) \cup SeqRange(SmtpVars)

\* AlertRequest.recipients[i]: phone?, email?, language ("" is an absent or
\* empty value: both are falsy in the handler's tests).  A language is any
\* string: a code the alert has content for or not, or a name such as
\* "constructor".
RecipientPool ==
    { [phone |-> "",   email |-> "",   language |-> "en"],
      [phone |-> "p1", email |-> "",   language |-> "constructor"],
      [phone |-> "",   email |-> "e1", language |-> "hi"],
      [phone |-> "p2", email |-> "e2", language |-> ""] }

RecipientLists == UNION {[1..n -> RecipientPool] : n \in 0..MaxRecipients}

\* AlertRequest.alert, by the fields the handler reads for its response and
\* its messages.  languages? is absent, or a map from language codes to
\* content, here with content for "hi" and none for "en".
AlertPool ==
    { [zone |-> "", radius |-> 0, title |-> "Flood", description |-> "River rising.",
       hasLanguages |-> FALSE, languages |-> {}],
      [zone |-> "nearby", radius |-> 25, title |-> "Flood",
       description |-> "River rising.", hasLanguages |-> TRUE,
       languages |-> {[code |-> "hi", title |-> "Baadh", description |-> "Nadi badh rahi hai."]}] }

NoAlert ==
    [zone |-> "", radius |-> 0, title |-> "", description |-> "",
     hasLanguages |-> FALSE, languages |-> {}]

\* What arrives at the handler: the HTTP method, whether the body parses to
\* an object, and which of the two top-level fields the object carries.
Requests ==
    { [method |-> "OPTIONS", json |-> "object", hasAlert |-> FALSE,
       hasRecipients |-> FALSE, alert |-> NoAlert, recipients |-> <<>>] }
    \cup
    { [method |-> "POST", json |-> j, hasAlert |-> FALSE,
       hasRecipients |-> FALSE, alert |-> NoAlert, recipients |-> <<>>]
        : j \in {"unparseable", "null", "object"} }
    \cup
    { [method |-> "POST", json |-> "object", hasAlert |-> FALSE,
       hasRecipients |-> TRUE, alert |-> NoAlert, recipients |-> rs]
        : rs \in RecipientLists }
    \cup
    { [method |-> "POST", json |-> "object", hasAlert |-> TRUE,
       hasRecipients |-> FALSE, alert |-> a, recipients |-> <<>>]
        : a \in AlertPool }
    \cup
    { [method |-> "POST", json |-> "object", hasAlert |-> TRUE,
       hasRecipients |-> TRUE, alert |-> a, recipients |-> rs]
        : a \in AlertPool, rs \in RecipientLists }

VARIABLES
    env,             \* names of the environment variables holding a non-empty value
    request,         \* the request being handled
    pc,              \* handler position: idle, loop, await, done
    missingTwilio,   \* line 46
    missingSmtp,     \* line 52
    idx,             \* index of the next recipient of the for-of loop
    deliveryTasks,   \* line 65: the promises, each with the send it stands for
    deliveryMeta,    \* line 66
    earlyErrors,     \* line 67
    deliveryResults, \* line 119: the values array Promise.allSettled fills
    response,        \* the Response returned, kind "none" until then
    task,            \* per (recipient index, channel): the state of its delivery task
    sends,           \* per (recipient index, channel): send operations issued this run
    prev             \* the previous run of the same request: provider answers, response

\* The client services (src/services/enhancedAlertService.ts, AlertService of
\* src/pages/Auth.tsx), which hand requests to the delivery sub-service.
VARIABLES
    callerAlert,     \* the caller's Alert object, as it is now
    entered,         \* the same object as it was when the caller made the call
    call,            \* the method of EnhancedAlertService the caller invoked
    directory,       \* the profiles with their subscription, as the database holds them
    zpc,             \* position of the call within EnhancedAlertService
    zones,           \* enhancedAlertService.ts line 61
    subscribers,     \* enhancedAlertService.ts line 64
    targetedAlerts,  \* enhancedAlertService.ts line 67
    posted,          \* bodies of the requests handed to the delivery sub-service
    registry,        \* AlertService.subscribers (Auth.tsx line 984)
    apc              \* position of AlertService

\* The run of processAndDistributeAlert in progress.
VARIABLES
    zidx,            \* index of the next zone of the for-of loop of line 188
    reads,           \* queries made to the subscriber directory in this run
    seen,            \* the directory as it was when the run queried it
    answers,         \* per request of the run: what came back for it
    outcome          \* how the promise of the call settled, "none" until then

\* A measurement with LocationService.calculateDistance.
VARIABLES
    pointA,          \* the first pair of coordinates
    pointB,          \* the second
    measured         \* the distances computed between them

\* The callers of AlertService.subscribe.
VARIABLES
    lastCall         \* per (email, phone): the arguments of the latest call

edgeVars == <<env, request, pc, missingTwilio, missingSmtp, idx, deliveryTasks,
              deliveryMeta, earlyErrors, deliveryResults, response, task, sends, prev>>

zonedVars == <<callerAlert, entered, call, directory, zpc, zones, subscribers,
               targetedAlerts, posted, zidx, reads, seen, answers, outcome>>

serviceVars == <<registry, apc, lastCall>>

geoVars == <<pointA, pointB, measured>>

clientVars == <<zonedVars, serviceVars, geoVars>>

vars == <<edgeVars, clientVars>>

TaskIds == (1..MaxRecipients) \X Channels

NoResponse ==
    [kind |-> "none", status |-> 0, success |-> FALSE, sent |-> 0, failed |-> 0,
     errors |-> <<>>, zone |-> "", radius |-> 0, smsEnabled |-> FALSE, emailEnabled |-> FALSE]

NoPrev == [valid |-> FALSE, answers |-> <<>>, response |-> NoResponse]

NoTasks == [t \in TaskIds |-> "None"]

NoSends == [t \in TaskIds |-> 0]

----------------------------------------------------------------------------
\* Service availability (lines 45-57)

\* The names of `names`, in order, that are not set in e.
RECURSIVE MissingOf(_, _)
MissingOf(names, e) ==
    IF names = <<>> THEN <<>>
    ELSE (IF Head(names) \in e THEN <<>> ELSE <<Head(names)>>)
         \o MissingOf(Tail(names), e)

MissingTwilio(e) == MissingOf(TwilioVars, e)

\* Faulty variant: the test of FROM_EMAIL is left out.
MissingSmtpWithoutFrom(e) == MissingOf(<<"SMTP_HOST", "SMTP_USER", "SMTP_PASS">>, e)

MissingSmtp(e) == MissingOf(SmtpVars, e)

smsEnabled == Len(missingTwilio) = 0

emailEnabled == Len(missingSmtp) = 0

----------------------------------------------------------------------------
\* The send operations (lines 174-246)

\* What the provider can answer to an issued send.  An SMS send is a fetch to
\* the provider: a 2xx reply, a non-2xx reply, or a failed network call.  The
\* Email send awaits a timer, which only ever fires.
ProviderAnswers(channel) ==
    IF channel = "SMS" THEN {"2xx", "non2xx", "neterr"} ELSE {"timer"}

NoReason == [text |-> "", missing |-> <<>>]

\* The names every object inherits from Object.prototype: a parsed JSON
\* object answers a lookup of one of them with the inherited value.
ObjectPrototypeKeys ==
    {"constructor", "toString", "valueOf", "hasOwnProperty", "__proto__"}

\* alert.languages[language] (lines 271, 316): the map's own entry, else the
\* inherited value when the name is one every object has, else undefined.
LanguageEntry(alert, language) ==
    IF \E e \in alert.languages : e.code = language
    THEN LET e == CHOOSE e \in alert.languages : e.code = language
         IN  [kind |-> "own", title |-> e.title, description |-> e.description]
    ELSE IF language \in ObjectPrototypeKeys
    THEN [kind |-> "inherited", title |-> "undefined", description |-> "undefined"]
    ELSE [kind |-> "undefined", title |-> "", description |-> ""]

\* lines 271-273 and 316-318: the entry when the map is there and the lookup
\* is truthy, else the alert's own title and description.  An inherited
\* value is truthy and has neither field, which a template prints as
\* "undefined".
Localized(alert, language) ==
    LET entry == LanguageEntry(alert, language)
    IN  IF alert.hasLanguages /\ entry.kind # "undefined"
        THEN [title |-> entry.title, description |-> entry.description]
        ELSE [title |-> alert.title, description |-> alert.description]

\* lines 249-293: the text, by the parts put into the template
createEnhancedSMSMessage(alert, language) ==
    [zoneInfo |-> IF alert.zone # "" THEN <<alert.zone, alert.radius>>
                  ELSE <<"DIRECT ALERT">>,
     title |-> Localized(alert, language).title,
     description |-> Localized(alert, language).description]

\* lines 296-442: subject and html, by the parts put into the templates
createEnhancedEmailMessage(alert, language) ==
    [zoneInfo |-> IF alert.zone # "" THEN <<alert.zone, alert.radius>>
                  ELSE <<"DIRECT EMERGENCY ALERT">>,
     title |-> Localized(alert, language).title,
     description |-> Localized(alert, language).description]

\* The promise an async send function returns, pending at its first await.
\* rcpt is the index of the recipient the send was issued for.
sendEnhancedSMS(r, phone, alert, lang) ==
    [rcpt |-> r, channel |-> "SMS", to |-> phone, language |-> lang,
     message |-> createEnhancedSMSMessage(alert, lang),
     state |-> "pending", answer |-> "none", reason |-> NoReason]

sendEnhancedEmail(r, email, alert, lang) ==
    [rcpt |-> r, channel |-> "Email", to |-> email, language |-> lang,
     message |-> createEnhancedEmailMessage(alert, lang),
     state |-> "pending", answer |-> "none", reason |-> NoReason]

\* Faulty variant: any reply of the provider counts as delivered, whatever its
\* status; only a failed network call rejects.
SettlePromiseOkOnAnyReply(p, a) ==
    IF p.channel = "SMS" /\ a = "neterr"
    THEN [p EXCEPT !.state = "rejected", !.answer = a,
                   !.reason = [text |-> "fetch failed", missing |-> <<>>]]
    ELSE [p EXCEPT !.state = "fulfilled", !.answer = a]

\* A pending send resumed with the provider's answer a: sendEnhancedSMS
\* throws on !response.ok and on a failed fetch; sendEnhancedEmail returns.
SettlePromise(p, a) ==
    IF p.channel = "SMS"
    THEN CASE a = "2xx" ->
                [p EXCEPT !.state = "fulfilled", !.answer = a]
           [] a = "non2xx" ->
                [p EXCEPT !.state = "rejected", !.answer = a,
                          !.reason = [text |-> "SMS delivery failed: status body",
                                      missing |-> <<>>]]
           [] OTHER ->
                [p EXCEPT !.state = "rejected", !.answer = a,
                          !.reason = [text |-> "fetch failed", missing |-> <<>>]]
    ELSE [p EXCEPT !.state = "fulfilled", !.answer = a]

\* Faulty variant: a rejection aborts every send still in flight.
SettleTaskCancelOthers(tasks, i, a) ==
    LET p == SettlePromise(tasks[i], a)
    IN  [j \in 1..Len(tasks) |->
            IF j = i THEN p
            ELSE IF p.state = "rejected" /\ tasks[j].state = "pending"
                 THEN [tasks[j] EXCEPT !.state = "rejected", !.answer = "aborted",
                                       !.reason = [text |-> "aborted", missing |-> <<>>]]
                 ELSE tasks[j]]

\* The promises after promise i got answer a: no other promise is touched.
SettleTask(tasks, i, a) == [tasks EXCEPT ![i] = SettlePromise(tasks[i], a)]

----------------------------------------------------------------------------
\* The recipient loop (lines 70-116).  st carries the three lists the loop
\* appends to, and the task bookkeeping.

Lang(recipient) == IF recipient.language = "" THEN "en" ELSE recipient.language

\* Faulty variant: the send is issued a second time for the same task.
ProcessSmsSendTwice(st, r, recipient) ==
    LET lang == Lang(recipient)
        id == <<r, "SMS">>
        send == sendEnhancedSMS(r, recipient.phone, request.alert, lang)
        meta == [channel |-> "SMS", recipient |-> recipient.phone, language |-> lang]
    IN  IF recipient.phone # "" /\ smsEnabled
        THEN [st EXCEPT
                !.tasks = @ \o <<send, send>>,
                !.meta = @ \o <<meta, meta>>,
                !.task[id] = "Sent",
                !.sends[id] = @ + 2]
        ELSE IF recipient.phone # "" /\ ~smsEnabled
        THEN [st EXCEPT
                !.early = Append(@, [channel |-> "SMS", recipient |-> recipient.phone,
                                     reason |-> [text |-> "SMS service not configured",
                                                 missing |-> missingTwilio]]),
                !.task[id] = "GatedFail"]
        ELSE st

\* Faulty variant: a gated SMS leaves its metadata in deliveryMeta as well.
ProcessSmsMetaWhenGated(st, r, recipient) ==
    LET lang == Lang(recipient)
        id == <<r, "SMS">>
    IN  IF recipient.phone # "" /\ smsEnabled
        THEN [st EXCEPT
                !.tasks = Append(@, sendEnhancedSMS(r, recipient.phone, request.alert, lang)),
                !.meta = Append(@, [channel |-> "SMS", recipient |-> recipient.phone,
                                    language |-> lang]),
                !.task[id] = "Sent",
                !.sends[id] = @ + 1]
        ELSE IF recipient.phone # "" /\ ~smsEnabled
        THEN [st EXCEPT
                !.meta = Append(@, [channel |-> "SMS", recipient |-> recipient.phone,
                                    language |-> lang]),
                !.early = Append(@, [channel |-> "SMS", recipient |-> recipient.phone,
                                     reason |-> [text |-> "SMS service not configured",
                                                 missing |-> missingTwilio]]),
                !.task[id] = "GatedFail"]
        ELSE st

\* lines 74-92
ProcessSms(st, r, recipient) ==
    LET lang == Lang(recipient)
        id == <<r, "SMS">>
    IN  IF recipient.phone # "" /\ smsEnabled
        THEN [st EXCEPT
                !.tasks = Append(@, sendEnhancedSMS(r, recipient.phone, request.alert, lang)),
                !.meta = Append(@, [channel |-> "SMS", recipient |-> recipient.phone,
                                    language |-> lang]),
                !.task[id] = "Sent",
                !.sends[id] = @ + 1]
        ELSE IF recipient.phone # "" /\ ~smsEnabled
        THEN [st EXCEPT
                !.early = Append(@, [channel |-> "SMS", recipient |-> recipient.phone,
                                     reason |-> [text |-> "SMS service not configured",
                                                 missing |-> missingTwilio]]),
                !.task[id] = "GatedFail"]
        ELSE st

\* Faulty variant: the Email branch hangs off the SMS test as a further else-if.
ProcessEmailOnlyWithoutPhone(st, r, recipient) ==
    LET lang == Lang(recipient)
        id == <<r, "Email">>
    IN  IF recipient.phone # "" THEN st
        ELSE IF recipient.email # "" /\ emailEnabled
        THEN [st EXCEPT
                !.tasks = Append(@, sendEnhancedEmail(r, recipient.email, request.alert, lang)),
                !.meta = Append(@, [channel |-> "Email", recipient |-> recipient.email,
                                    language |-> lang]),
                !.task[id] = "Sent",
                !.sends[id] = @ + 1]
        ELSE IF recipient.email # "" /\ ~emailEnabled
        THEN [st EXCEPT
                !.early = Append(@, [channel |-> "Email", recipient |-> recipient.email,
                                     reason |-> [text |-> "Email service not configured",
                                                 missing |-> missingSmtp]]),
                !.task[id] = "GatedFail"]
        ELSE st

\* lines 95-115
ProcessEmail(st, r, recipient) ==
    LET lang == Lang(recipient)
        id == <<r, "Email">>
    IN  IF recipient.email # "" /\ emailEnabled
        THEN [st EXCEPT
                !.tasks = Append(@, sendEnhancedEmail(r, recipient.email, request.alert, lang)),
                !.meta = Append(@, [channel |-> "Email", recipient |-> recipient.email,
                                    language |-> lang]),
                !.task[id] = "Sent",
                !.sends[id] = @ + 1]
        ELSE IF recipient.email # "" /\ ~emailEnabled
        THEN [st EXCEPT
                !.early = Append(@, [channel |-> "Email", recipient |-> recipient.email,
                                     reason |-> [text |-> "Email service not configured",
                                                 missing |-> missingSmtp]]),
                !.task[id] = "GatedFail"]
        ELSE st

----------------------------------------------------------------------------
\* Promise.allSettled and the aggregation (lines 119-154)

PendingResult == [status |-> "pending", reason |-> NoReason]

\* The entry allSettled keeps for a settled promise.
ResultOf(p) == [status |-> p.state, reason |-> p.reason]

\* Faulty variant: results are kept in the order the promises settle.
RecordSettledInCompletionOrder(values, i, result) ==
    LET k == CHOOSE k \in 1..Len(values) :
                /\ values[k].status = "pending"
                /\ \A j \in 1..(k - 1) : values[j].status # "pending"
    IN  [values EXCEPT ![k] = result]

\* allSettled stores a promise's result at the promise's own index.
RecordSettled(values, i, result) == [values EXCEPT ![i] = result]

\* Faulty variant: the wait ends with the first promise that settles.
FirstSettled(values) ==
    Len(values) = 0 \/ \E i \in 1..Len(values) : values[i].status # "pending"

\* allSettled resolves once no entry is pending.
AllSettled(values) == \A i \in 1..Len(values) : values[i].status # "pending"

\* Faulty variant: the join rejects when one of its promises rejects.
AwaitThrowsOnRejection(values) ==
    \E i \in 1..Len(values) : values[i].status = "rejected"

\* allSettled never rejects: the await at line 119 does not throw.
AwaitThrows(values) == FALSE

RECURSIVE DeliveryErrorsFrom(_, _, _)
DeliveryErrorsFrom(results, meta, i) ==
    IF i > Len(results) THEN <<>>
    ELSE (IF results[i].status = "rejected"
          THEN << [channel |-> meta[i].channel, recipient |-> meta[i].recipient,
                   language |-> meta[i].language, reason |-> results[i].reason] >>
          ELSE <<>>)
         \o DeliveryErrorsFrom(results, meta, i + 1)

\* lines 122-127
deliveryErrors(results, meta) == DeliveryErrorsFrom(results, meta, 1)

\* line 129
allErrors(early, delivery) == early \o delivery

\* Faulty variant: every settled send is counted as sent.
SuccessfulCountsSettled(results) == Len(results)

\* line 130
successful(results) ==
    Cardinality({i \in 1..Len(results) : results[i].status = "fulfilled"})

\* Faulty variant: the run counts as successful once something was sent.
SuccessWhenAnySent(sent, failed) == sent > 0

\* line 141
Success(sent, failed) == failed = 0

\* lines 139-154
Report(results, meta, early, alert) ==
    LET errors == allErrors(early, deliveryErrors(results, meta))
        sent == successful(results)
        failed == Len(errors)
    IN  [kind |-> "report", status |-> 200,
         success |-> Success(sent, failed),
         sent |-> sent, failed |-> failed, errors |-> errors,
         zone |-> IF alert.zone = "" THEN "direct" ELSE alert.zone,
         radius |-> alert.radius,
         smsEnabled |-> smsEnabled, emailEnabled |-> emailEnabled]

\* lines 156-169
Error500 ==
    [kind |-> "error", status |-> 500, success |-> FALSE, sent |-> 0, failed |-> 0,
     errors |-> <<>>, zone |-> "", radius |-> 0,
     smsEnabled |-> FALSE, emailEnabled |-> FALSE]

\* lines 27-29
PreflightResponse ==
    [kind |-> "preflight", status |-> 200, success |-> FALSE, sent |-> 0, failed |-> 0,
     errors |-> <<>>, zone |-> "", radius |-> 0,
     smsEnabled |-> FALSE, emailEnabled |-> FALSE]

----------------------------------------------------------------------------
\* The client services before any call is made to them

\* coordinates?: absent (undefined), or a point.
NoCoordinates == [defined |-> FALSE, lat |-> 0, lng |-> 0]

NoCall ==
    [title |-> <<>>, description |-> <<>>, severity |-> "", type |-> "",
     location |-> <<>>, coordinates |-> NoCoordinates, languages |-> {}]

ZonedIdle ==
    /\ callerAlert = NoCall
    /\ entered = NoCall
    /\ call = "none"
    /\ directory = <<>>
    /\ zpc = "idle"
    /\ zones = <<>>
    /\ subscribers = <<>>
    /\ targetedAlerts = <<>>
    /\ posted = <<>>
    /\ zidx = 1
    /\ reads = 0
    /\ seen = <<>>
    /\ answers = <<>>
    /\ outcome = "none"

ServiceIdle ==
    /\ registry = <<>>
    /\ apc = "idle"
    /\ lastCall = {}

\* No measurement asked for.
NotMeasured == [done |-> FALSE, ab |-> 0, ba |-> 0, aa |-> 0, bb |-> 0]

GeoIdle ==
    /\ pointA = NoCoordinates
    /\ pointB = NoCoordinates
    /\ measured = NotMeasured

ClientsIdle == ZonedIdle /\ ServiceIdle /\ GeoIdle

----------------------------------------------------------------------------
\* The handler

\* The state of a task whose send is the promise p.
TaskOfPromise(p) ==
    CASE p.state = "pending" -> "Sent"
      [] p.state = "fulfilled" -> "Delivered"
      [] OTHER -> "Rejected"

\* The task states once the promises are `tasks`: a task with a send issued
\* is where its promise is, any other task is where it was.
TasksAfter(states, tasks) ==
    [t \in TaskIds |->
        IF \E j \in 1..Len(tasks) : <<tasks[j].rcpt, tasks[j].channel>> = t
        THEN TaskOfPromise(tasks[CHOOSE j \in 1..Len(tasks) :
                                    <<tasks[j].rcpt, tasks[j].channel>> = t])
        ELSE states[t]]

\* One task per recipient per channel the recipient gives an address for.
PendingTasks(recipients) ==
    [t \in TaskIds |->
        IF t[1] <= Len(recipients)
           /\ (IF t[2] = "SMS" THEN recipients[t[1]].phone ELSE recipients[t[1]].email) # ""
        THEN "Pending" ELSE "None"]

Init ==
    /\ env \in SUBSET EnvVars
    /\ request \in Requests
    /\ pc = "idle"
    /\ missingTwilio = <<>>
    /\ missingSmtp = <<>>
    /\ idx = 1
    /\ deliveryTasks = <<>>
    /\ deliveryMeta = <<>>
    /\ earlyErrors = <<>>
    /\ deliveryResults = <<>>
    /\ response = NoResponse
    /\ task = NoTasks
    /\ sends = NoSends
    /\ prev = NoPrev
    /\ ClientsIdle

\* lines 27-29: a CORS preflight is answered at once.
Preflight ==
    /\ pc = "idle"
    /\ request.method = "OPTIONS"
    /\ response' = PreflightResponse
    /\ pc' = "done"
    /\ UNCHANGED <<env, request, missingTwilio, missingSmtp, idx, deliveryTasks,
                   deliveryMeta, earlyErrors, deliveryResults, task, sends, prev>>
    /\ UNCHANGED clientVars

\* line 32: req.json() rejects, or destructuring null throws; caught at line 156.
ParseFail ==
    /\ pc = "idle"
    /\ request.method # "OPTIONS"
    /\ request.json # "object"
    /\ response' = Error500
    /\ pc' = "done"
    /\ UNCHANGED <<env, request, missingTwilio, missingSmtp, idx, deliveryTasks,
                   deliveryMeta, earlyErrors, deliveryResults, task, sends, prev>>
    /\ UNCHANGED clientVars

\* lines 32-67: the gates are evaluated; line 59 reads alert.zone and
\* recipients.length, which throws when either field is absent.
Start ==
    /\ pc = "idle"
    /\ request.method # "OPTIONS"
    /\ request.json = "object"
    /\ missingTwilio' = MissingTwilio(env)
    /\ missingSmtp' = MissingSmtp(env)
    /\ IF request.hasAlert /\ request.hasRecipients
       THEN /\ pc' = "loop"
            /\ task' = PendingTasks(request.recipients)
            /\ UNCHANGED response
       ELSE /\ pc' = "done"
            /\ response' = Error500
            /\ UNCHANGED task
    /\ UNCHANGED <<env, request, idx, deliveryTasks, deliveryMeta, earlyErrors,
                   deliveryResults, sends, prev>>
    /\ UNCHANGED clientVars

\* lines 70-116: one iteration of the loop, SMS first, then Email.
ProcessRecipient ==
    /\ pc = "loop"
    /\ idx <= Len(request.recipients)
    /\ LET recipient == request.recipients[idx]
           st0 == [tasks |-> deliveryTasks, meta |-> deliveryMeta,
                   early |-> earlyErrors, task |-> task, sends |-> sends]
           st1 == ProcessSms(st0, idx, recipient)
           st2 == ProcessEmail(st1, idx, recipient)
       IN  /\ deliveryTasks' = st2.tasks
           /\ deliveryMeta' = st2.meta
           /\ earlyErrors' = st2.early
           /\ task' = st2.task
           /\ sends' = st2.sends
    /\ idx' = idx + 1
    /\ UNCHANGED <<env, request, pc, missingTwilio, missingSmtp, deliveryResults,
                   response, prev>>
    /\ UNCHANGED clientVars

\* line 119: the handler suspends on Promise.allSettled(deliveryTasks).
AwaitAll ==
    /\ pc = "loop"
    /\ idx > Len(request.recipients)
    /\ deliveryResults' = [i \in 1..Len(deliveryTasks) |-> PendingResult]
    /\ pc' = "await"
    /\ UNCHANGED <<env, request, missingTwilio, missingSmtp, idx, deliveryTasks,
                   deliveryMeta, earlyErrors, response, task, sends, prev>>
    /\ UNCHANGED clientVars

\* An issued send completes with the provider's answer and allSettled records
\* it.  When the request is a resubmission, the provider repeats the answer it
\* gave to the same task in the previous run; the completion order is free.
Settle(i) ==
    /\ pc = "await"
    /\ deliveryTasks[i].state = "pending"
    /\ \E a \in ProviderAnswers(deliveryTasks[i].channel) :
          /\ prev.valid => a = prev.answers[i]
          /\ LET tasks2 == SettleTask(deliveryTasks, i, a)
             IN  /\ deliveryTasks' = tasks2
                 /\ deliveryResults' = RecordSettled(deliveryResults, i, ResultOf(tasks2[i]))
                 /\ task' = TasksAfter(task, tasks2)
    /\ UNCHANGED <<env, request, pc, missingTwilio, missingSmtp, idx, deliveryMeta,
                   earlyErrors, response, sends, prev>>
    /\ UNCHANGED clientVars

\* lines 119-154: allSettled has resolved; the report is built and returned.
Respond ==
    /\ pc = "await"
    /\ AllSettled(deliveryResults)
    /\ response' = IF AwaitThrows(deliveryResults) THEN Error500
                   ELSE Report(deliveryResults, deliveryMeta, earlyErrors, request.alert)
    /\ pc' = "done"
    /\ UNCHANGED <<env, request, missingTwilio, missingSmtp, idx, deliveryTasks,
                   deliveryMeta, earlyErrors, deliveryResults, task, sends, prev>>
    /\ UNCHANGED clientVars

\* The caller submits the same request again: a new run of the handler in the
\* same environment.
Resubmit ==
    /\ pc = "done"
    /\ prev' = [valid |-> TRUE,
                answers |-> [i \in 1..Len(deliveryTasks) |-> deliveryTasks[i].answer],
                response |-> response]
    /\ pc' = "idle"
    /\ missingTwilio' = <<>>
    /\ missingSmtp' = <<>>
    /\ idx' = 1
    /\ deliveryTasks' = <<>>
    /\ deliveryMeta' = <<>>
    /\ earlyErrors' = <<>>
    /\ deliveryResults' = <<>>
    /\ response' = NoResponse
    /\ task' = NoTasks
    /\ sends' = NoSends
    /\ UNCHANGED <<env, request>>
    /\ UNCHANGED clientVars

Next ==
    \/ Preflight
    \/ ParseFail
    \/ Start
    \/ ProcessRecipient
    \/ AwaitAll
    \/ \E i \in 1..Len(deliveryTasks) : Settle(i)
    \/ Respond
    \/ Resubmit

Spec == Init /\ [][Next]_vars

----------------------------------------------------------------------------
\* Vocabulary of the properties

IsReport == response.kind = "report"

WellFormed ==
    /\ request.method = "POST"
    /\ request.json = "object"
    /\ request.hasAlert
    /\ request.hasRecipients

Address(r, c) ==
    IF c = "SMS" THEN request.recipients[r].phone ELSE request.recipients[r].email

\* The variables a channel needs, and whether its gate is closed.
RequiredVars(c) ==
    IF c = "SMS"
    THEN {"TWILIO_ACCOUNT_SID", "TWILIO_AUTH_TOKEN", "TWILIO_PHONE_NUMBER"}
    ELSE {"SMTP_HOST", "SMTP_USER", "SMTP_PASS", "FROM_EMAIL"}

GateClosed(c) == RequiredVars(c) \ env # {}

Gated == {t \in TaskIds : task[t] = "GatedFail"}

Issued(st) == {i \in 1..Len(deliveryTasks) : deliveryTasks[i].state = st}

\* The tasks of the request that exist at all.
Enumerated == {t \in TaskIds : task[t] # "None"}

\* channel and recipient of each entry of an errors list
Addressees(errors) ==
    [i \in 1..Len(errors) |->
        [channel |-> errors[i].channel, recipient |-> errors[i].recipient]]

\* The failed tasks of recipients r.., SMS before Email for each recipient.
RECURSIVE FailedFrom(_)
FailedFrom(r) ==
    IF r > Len(request.recipients) THEN <<>>
    ELSE LET one(c) == IF task[<<r, c>>] \in {"GatedFail", "Rejected"}
                       THEN << [channel |-> c, recipient |-> Address(r, c)] >>
                       ELSE <<>>
         IN  one("SMS") \o one("Email") \o FailedFrom(r + 1)

----------------------------------------------------------------------------
\* C1: in every report the errors list has `failed` entries, `failed` is the
\* number of gated tasks plus the number of rejected sends, `sent` is the
\* number of fulfilled sends, and the tasks attempted are sent + failed.
C1_ReportCounts ==
    IsReport =>
        /\ Len(response.errors) = response.failed
        /\ response.failed = Cardinality(Gated) + Cardinality(Issued("rejected"))
        /\ response.sent = Cardinality(Issued("fulfilled"))
        /\ Cardinality(Enumerated) = response.sent + response.failed

\* A report of a run with a gated task, a rejected send and a fulfilled send.
C1_Witness ==
    /\ IsReport
    /\ Gated # {}
    /\ Issued("rejected") # {}
    /\ Issued("fulfilled") # {}

\* C2: in every report the errors list names the failed tasks in the order
\* the tasks were enumerated: recipients in submission order, SMS before
\* Email for one recipient.
C2_ErrorsInEnumerationOrder ==
    IsReport => Addressees(response.errors) = FailedFrom(1)

\* C3: while a channel's gate is closed no send is issued on the channel, and
\* in the report every address of the channel has a failed entry whose reason
\* lists exactly the variables that are missing.
C3_ClosedGate ==
    \A c \in Channels :
        GateClosed(c) =>
            /\ \A i \in 1..Len(deliveryTasks) : deliveryTasks[i].channel # c
            /\ \A r \in 1..MaxRecipients : sends[<<r, c>>] = 0
            /\ IsReport =>
                  LET mine == {i \in 1..Len(response.errors) :
                                   response.errors[i].channel = c}
                      holders == {r \in 1..Len(request.recipients) : Address(r, c) # ""}
                  IN  /\ Cardinality(mine) = Cardinality(holders)
                      /\ \A r \in holders :
                            /\ task[<<r, c>>] = "GatedFail"
                            /\ \E i \in mine : response.errors[i].recipient = Address(r, c)
                      /\ \A i \in mine :
                            LET m == response.errors[i].reason.missing
                            IN  /\ SeqRange(m) = RequiredVars(c) \ env
                                /\ Len(m) = Cardinality(RequiredVars(c) \ env)

\* A report of a run whose Email gate was closed by two missing variables,
\* with an Email address among the recipients.
C3_Witness ==
    /\ IsReport
    /\ Cardinality(RequiredVars("Email") \ env) = 2
    /\ \E r \in 1..Len(request.recipients) : Address(r, "Email") # ""
    /\ ~GateClosed("SMS")

StateOnAnswer(a) == IF a \in {"2xx", "timer"} THEN "fulfilled" ELSE "rejected"

\* In a step taken while the handler waits, at most one send changes, it was
\* pending, and it settles by the answer it got itself.
SettleIsolated ==
    (pc = "await" /\ pc' = "await") =>
        LET changed == {j \in 1..Len(deliveryTasks) : deliveryTasks'[j] # deliveryTasks[j]}
        IN  /\ Len(deliveryTasks') = Len(deliveryTasks)
            /\ Cardinality(changed) <= 1
            /\ \A j \in changed :
                  /\ deliveryTasks[j].state = "pending"
                  /\ deliveryTasks'[j].answer \in ProviderAnswers(deliveryTasks[j].channel)
                  /\ deliveryTasks'[j].state = StateOnAnswer(deliveryTasks'[j].answer)

\* In a report every issued send is settled by its own answer and counted so.
CountedByOwnAnswer ==
    IsReport =>
        /\ \A i \in 1..Len(deliveryTasks) :
              /\ deliveryTasks[i].answer \in ProviderAnswers(deliveryTasks[i].channel)
              /\ deliveryTasks[i].state = StateOnAnswer(deliveryTasks[i].answer)
        /\ response.sent =
              Cardinality({i \in 1..Len(deliveryTasks) :
                              deliveryTasks[i].answer \in {"2xx", "timer"}})
        /\ response.failed - Len(earlyErrors) =
              Cardinality({i \in 1..Len(deliveryTasks) :
                              deliveryTasks[i].answer \in {"non2xx", "neterr"}})

\* C5: the rejection of one send neither cancels nor changes another task of
\* the run: each send settles alone, by its own answer, and the report counts
\* every send by its own outcome.
C5_NoCrossTaskCancellation == [][SettleIsolated]_vars /\ []CountedByOwnAnswer

\* A report of a run in which one send was rejected and another fulfilled.
C5_Witness ==
    /\ IsReport
    /\ \E i, j \in 1..Len(deliveryTasks) :
          /\ deliveryTasks[i].state = "rejected"
          /\ deliveryTasks[j].state = "fulfilled"
          /\ deliveryTasks[j].channel = "SMS"

Terminal == {"GatedFail", "Delivered", "Rejected"}

\* The moves of one task within a run.
LegalMove(a, b) ==
    \/ a = b
    \/ a = "None" /\ b = "Pending"
    \/ a = "Pending" /\ b \in {"GatedFail", "Sent"}
    \/ a = "Sent" /\ b \in {"Delivered", "Rejected"}

\* pc' = "idle" is the start of a new run.
TaskMoves == pc' # "idle" => \A t \in TaskIds : LegalMove(task[t], task'[t])

OneSendPerTask ==
    \A t \in TaskIds :
        /\ sends[t] <= 1
        /\ Cardinality({i \in 1..Len(deliveryTasks) :
                           <<deliveryTasks[i].rcpt, deliveryTasks[i].channel>> = t})
              = sends[t]
        /\ sends[t] = 1 <=> task[t] \in {"Sent", "Delivered", "Rejected"}
        /\ response.kind = "report" => task[t] \in Terminal \cup {"None"}

\* C6: a task moves Pending -> Gated-Fail or Sent, Sent -> Delivered or
\* Rejected, stays in a terminal state once there, is in a terminal state when
\* the report is returned, and has at most one send issued within a run.
C6_TaskStateMachine == [][TaskMoves]_vars /\ []OneSendPerTask

\* A report of a run with a task in each of the three terminal states.
C6_Witness ==
    /\ IsReport
    /\ \A st \in Terminal : \E t \in TaskIds : task[t] = st

\* C7: a run of the same request in the same environment whose sends get the
\* same answers as in the previous run returns the same response, whatever the
\* order in which the sends complete in either run.
C7_SameInputsSameReport ==
    (/\ prev.valid
     /\ pc = "done"
     /\ prev.answers = [i \in 1..Len(deliveryTasks) |-> deliveryTasks[i].answer])
        => response = prev.response

\* A second run returned its report, with a rejected SMS, a fulfilled SMS and a
\* gated task.
C7_Witness ==
    /\ prev.valid
    /\ IsReport
    /\ \E i, j \in 1..Len(deliveryTasks) :
          /\ deliveryTasks[i].state = "rejected"
          /\ deliveryTasks[j].state = "fulfilled"
          /\ deliveryTasks[j].channel = "SMS"
    /\ Gated # {}

Failed == {t \in TaskIds : task[t] \in {"GatedFail", "Rejected"}}

Delivered == {t \in TaskIds : task[t] = "Delivered"}

\* C9: success is true iff failed is 0 (iff no task failed); a run with a
\* delivered and a failed task is returned as a 200 report with success false,
\* sent >= 1 and failed >= 1.
C9_SuccessIffNoFailure ==
    /\ IsReport =>
          /\ response.success <=> response.failed = 0
          /\ response.success <=> Failed = {}
    /\ (pc = "done" /\ Delivered # {} /\ Failed # {}) =>
          /\ IsReport
          /\ response.status = 200
          /\ ~response.success
          /\ response.sent >= 1
          /\ response.failed >= 1

\* Scenario B: a phone-only recipient with SMS lacking its account id, an
\* email-only recipient with Email configured: sent 1, failed 1, success false.
C9_Witness ==
    /\ IsReport
    /\ Len(request.recipients) = 2
    /\ request.recipients[1].phone # "" /\ request.recipients[1].email = ""
    /\ request.recipients[2].phone = "" /\ request.recipients[2].email # ""
    /\ "TWILIO_ACCOUNT_SID" \notin env
    /\ ~GateClosed("Email")
    /\ response.sent = 1
    /\ response.failed = 1
    /\ ~response.success

\* The entries of a list of outcomes that are for address a on channel c.
For(list, c, a) ==
    {i \in 1..Len(list) : list[i].channel = c /\ list[i].recipient = a}

\* C10: the run records one outcome per recipient per channel the recipient
\* gives a non-empty address for, and none otherwise: sent + failed is the
\* number of non-empty addresses of the recipients list.
C10_OneTaskPerAddress ==
    IsReport =>
        /\ response.sent + response.failed =
              Cardinality({t \in TaskIds :
                              /\ t[1] <= Len(request.recipients)
                              /\ Address(t[1], t[2]) # ""})
        /\ \A t \in TaskIds :
              IF t[1] <= Len(request.recipients) /\ Address(t[1], t[2]) # ""
              THEN task[t] \in Terminal
              ELSE task[t] = "None" /\ sends[t] = 0
        /\ \A c \in Channels : \A a \in {"p1", "p2", "e1", "e2"} :
              Cardinality(For(earlyErrors, c, a)) + Cardinality(For(deliveryMeta, c, a))
                 = Cardinality({r \in 1..Len(request.recipients) : Address(r, c) = a})
        /\ Len(deliveryMeta) = Len(deliveryResults)

\* A report for a recipient with both addresses and a recipient with none.
C10_Witness ==
    /\ IsReport
    /\ \E r, q \in 1..Len(request.recipients) :
          /\ Address(r, "SMS") # "" /\ Address(r, "Email") # ""
          /\ Address(q, "SMS") = "" /\ Address(q, "Email") = ""
    /\ response.sent + response.failed = 2

\* The errors entries of the report that stand for the rejected send i.
EntriesOfSend(i) ==
    {k \in 1..Len(response.errors) :
        /\ k > Len(earlyErrors)
        /\ response.errors[k].channel = deliveryTasks[i].channel
        /\ response.errors[k].recipient = deliveryTasks[i].to
        /\ response.errors[k].reason = deliveryTasks[i].reason}

\* C11: an issued SMS send is Rejected when the provider answers non-2xx or
\* the network call fails, and Delivered only on a 2xx answer; in the report
\* each rejected send has an errors entry with its channel, address and
\* reason (for a non-2xx answer the text made of the provider's status and
\* body), and sent counts the fulfilled sends only.
C11_SmsRejectedUnlessOk ==
    /\ \A i \in 1..Len(deliveryTasks) :
          LET p == deliveryTasks[i]
              t == <<p.rcpt, p.channel>>
          IN  p.channel = "SMS" =>
                /\ p.answer \in {"non2xx", "neterr"} =>
                      p.state = "rejected" /\ task[t] = "Rejected"
                /\ (p.state = "fulfilled" \/ task[t] = "Delivered") => p.answer = "2xx"
                /\ p.answer = "non2xx" =>
                      p.reason.text = "SMS delivery failed: status body"
                /\ (IsReport /\ p.state = "rejected") => EntriesOfSend(i) # {}
    /\ IsReport =>
          /\ response.sent = Cardinality(Issued("fulfilled"))
          /\ response.sent + Cardinality(Issued("rejected")) = Len(deliveryTasks)
          /\ Len(response.errors) - Len(earlyErrors) = Cardinality(Issued("rejected"))

\* A report of a run in which one SMS got a non-2xx answer and another SMS a
\* 2xx answer: sent is 1 and the errors list holds the rejected one.
C11_Witness ==
    /\ IsReport
    /\ \E i, j \in 1..Len(deliveryTasks) :
          /\ deliveryTasks[i].channel = "SMS" /\ deliveryTasks[i].answer = "non2xx"
          /\ deliveryTasks[j].channel = "SMS" /\ deliveryTasks[j].answer = "2xx"
    /\ response.sent = 1
    /\ response.failed = 1

----------------------------------------------------------------------------
\* LocationService (src/services/locationService.ts)

\* Text is a sequence of characters, so that toLowerCase and includes are
\* computed on it as on a string.
Mumbai == <<"M", "u", "m", "b", "a", "i">>

NaviMumbai == <<"N", "a", "v", "i", " ", "M", "u", "m", "b", "a", "i">>

Visakhapatnam == <<"V", "i", "s", "a", "k", "h", "a", "p", "a", "t", "n", "a", "m">>

Patna == <<"P", "a", "t", "n", "a">>

Atlantis == <<"A", "t", "l", "a", "n", "t", "i", "s">>

LowerOf(c) ==
    CASE c = "A" -> "a" [] c = "B" -> "b" [] c = "C" -> "c" [] c = "D" -> "d"
      [] c = "I" -> "i" [] c = "M" -> "m" [] c = "N" -> "n" [] c = "P" -> "p"
      [] c = "R" -> "r" [] c = "V" -> "v" [] OTHER -> c

toLowerCase(s) == [i \in 1..Len(s) |-> LowerOf(s[i])]

\* String.prototype.includes: t occurs in s; the empty text occurs in every text.
includes(s, t) ==
    \E i \in 0..(Len(s) - Len(t)) : SubSeq(s, i + 1, i + Len(t)) = t

\* A point.  The points of the model lie on one meridian (lng the same), and
\* lat is measured along it in kilometres of arc.
At(x) == [defined |-> TRUE, lat |-> x, lng |-> 0]

\* The number that is no number.  Latitudes, longitudes and distances of the
\* model are 0 or more; NaN is kept apart from all of them.
NaN == -1

\* A point whose latitude and longitude are NaN.
NaNCoordinates == [defined |-> TRUE, lat |-> NaN, lng |-> NaN]

\* x <= y as the language compares numbers: false when either is NaN.
LessOrEqual(x, y) == x # NaN /\ y # NaN /\ x <= y

\* line 29: the radius of the Earth in km
R == 6371

\* The length in km of a quarter of a great circle, R * pi / 2.
QuarterTurn == (R * 15708) \div 10000

\* A point of the octahedron: the equator or the north pole, at a longitude
\* that is a multiple of a quarter turn.  Its coordinates are written as arcs
\* in km, like every coordinate of the model.
OnOctahedron(coord) ==
    /\ coord.lat \in {0, QuarterTurn}
    /\ coord.lng \in {0, QuarterTurn, 2 * QuarterTurn, 3 * QuarterTurn}

\* With the cosines taken from the first point only.
calculateDistanceFromFirst(coord1, coord2) ==
    LET sin2(k) == CASE k % 4 = 0 -> 0 [] k % 4 = 2 -> 2 [] OTHER -> 1
        cos(k) == CASE k % 4 = 0 -> 1 [] k % 4 = 2 -> 0 - 1 [] OTHER -> 0
        lat1 == coord1.lat \div QuarterTurn
        lat2 == coord2.lat \div QuarterTurn
        dLat == lat2 - lat1
        dLng == (coord2.lng \div QuarterTurn) - (coord1.lng \div QuarterTurn)
        a == sin2(dLat) + cos(lat1) * cos(lat1) * sin2(dLng)
        c == IF a \in 0..2 THEN a ELSE NaN
        arc == coord2.lat - coord1.lat
    IN  IF NaN \in {coord1.lat, coord1.lng, coord2.lat, coord2.lng} THEN NaN
        ELSE IF OnOctahedron(coord1) /\ OnOctahedron(coord2)
             THEN IF c = NaN THEN NaN ELSE c * QuarterTurn
        ELSE IF arc >= 0 THEN arc ELSE 0 - arc

\* Haversine, lines 28-40.  Arithmetic on NaN gives NaN.
\*
\* Between two points of the octahedron the formula is computed step by step
\* in exact arithmetic.  dLat / 2 and dLng / 2 are multiples of an eighth of a
\* turn, so sin2(k), the square of the sine of k eighths, is 0, 1/2 or 1 and
\* is counted in halves; cos(k), the cosine of k quarters, is 1, 0 or -1;
\* a (line 33-36) is 0, 1/2 or 1, counted in halves; and
\* c = 2 * atan2(sqrt(a), sqrt(1 - a)) (line 37) is 0, a quarter or a half
\* turn, the same count in quarters.  Outside 0..1 the square roots give NaN.
\*
\* For two other points of one meridian dLng = 0, so a = sin(dLat/2)^2,
\* c = |dLat| and R * c is the arc between the latitudes.
calculateDistance(coord1, coord2) ==
    LET sin2(k) == CASE k % 4 = 0 -> 0 [] k % 4 = 2 -> 2 [] OTHER -> 1
        cos(k) == CASE k % 4 = 0 -> 1 [] k % 4 = 2 -> 0 - 1 [] OTHER -> 0
        lat1 == coord1.lat \div QuarterTurn
        lat2 == coord2.lat \div QuarterTurn
        dLat == lat2 - lat1
        dLng == (coord2.lng \div QuarterTurn) - (coord1.lng \div QuarterTurn)
        a == sin2(dLat) + cos(lat1) * cos(lat2) * sin2(dLng)
        c == IF a \in 0..2 THEN a ELSE NaN
        arc == coord2.lat - coord1.lat
    IN  IF NaN \in {coord1.lat, coord1.lng, coord2.lat, coord2.lng} THEN NaN
        ELSE IF OnOctahedron(coord1) /\ OnOctahedron(coord2)
             THEN IF c = NaN THEN NaN ELSE c * QuarterTurn
        ELSE IF arc >= 0 THEN arc ELSE 0 - arc

\* The catalog, in the order of the source: Mumbai and Navi Mumbai 17 km
\* apart, Visakhapatnam and Patna 901 km apart.
getMajorIndianCities ==
    << [city |-> Mumbai, state |-> "Maharashtra", coordinates |-> At(0),
        region |-> "West"],
       [city |-> Visakhapatnam, state |-> "Andhra Pradesh", coordinates |-> At(1100),
        region |-> "South"],
       [city |-> Patna, state |-> "Bihar", coordinates |-> At(2001),
        region |-> "East"],
       [city |-> NaviMumbai, state |-> "Maharashtra", coordinates |-> At(17),
        region |-> "West"] >>

\* lines 161-164: the two-way, case-insensitive substring test
NameMatches(a, b) ==
    \/ includes(toLowerCase(a), toLowerCase(b))
    \/ includes(toLowerCase(b), toLowerCase(a))

\* lines 159-166: the coordinates of the first catalog entry that matches, or null
getCityCoordinates(cityName) ==
    LET cities == getMajorIndianCities
        hits == {i \in 1..Len(cities) : NameMatches(cities[i].city, cityName)}
    IN  IF hits = {} THEN NoCoordinates
        ELSE cities[CHOOSE i \in hits : \A j \in hits : i <= j].coordinates

\* Faulty variant: the upper edge of each band belongs to the band farther out.
BandExclusiveUpper(distance) ==
    IF distance # NaN /\ distance < 5 THEN "immediate"
    ELSE IF distance # NaN /\ distance < 25 THEN "nearby"
    ELSE IF distance # NaN /\ distance < 100 THEN "regional"
    ELSE "excluded"

\* lines 180-186: the band of a catalog entry at this distance
Band(distance) ==
    IF LessOrEqual(distance, 5) THEN "immediate"
    ELSE IF LessOrEqual(distance, 25) THEN "nearby"
    ELSE IF LessOrEqual(distance, 100) THEN "regional"
    ELSE "excluded"

\* The entries of cities, in order, that fall in band b around the point.
InBand(cities, alertCoordinates, b) ==
    LET Here(city) == Band(calculateDistance(alertCoordinates, city.coordinates)) = b
    IN  SelectSeq(cities, Here)

\* lines 169-190
getAlertZones(alertCoordinates) ==
    [immediate |-> InBand(getMajorIndianCities, alertCoordinates, "immediate"),
     nearby |-> InBand(getMajorIndianCities, alertCoordinates, "nearby"),
     regional |-> InBand(getMajorIndianCities, alertCoordinates, "regional")]

----------------------------------------------------------------------------
\* EnhancedAlertService (src/services/enhancedAlertService.ts)

\* Most rows of the subscriber directory in one run.
MaxProfiles == 2

Severities == {"critical", "warning", "info"}

\* Faulty variant: a nearby zone falls straight to the floor.
reduceSeverityToFloor(severity) == "info"

\* lines 120-126
reduceSeverity(severity) ==
    CASE severity = "critical" -> "warning"
      [] severity = "warning" -> "info"
      [] OTHER -> "info"

\* zone.map(city => city.city)
CityNames(cities) == [i \in 1..Len(cities) |-> cities[i].city]

\* lines 84-93
ImmediateZone(found, originalSeverity) ==
    IF Len(found.immediate) > 0
    THEN << [type |-> "immediate", severity |-> originalSeverity,
             cities |-> CityNames(found.immediate), radius |-> 5] >>
    ELSE <<>>

\* lines 95-104
NearbyZone(found, originalSeverity) ==
    IF Len(found.nearby) > 0
    THEN << [type |-> "nearby", severity |-> reduceSeverity(originalSeverity),
             cities |-> CityNames(found.nearby), radius |-> 25] >>
    ELSE <<>>

\* Faulty variant: the regional zone is made for an alert of any severity.
RegionalZoneForAnySeverity(found, originalSeverity) ==
    IF Len(found.regional) > 0
    THEN << [type |-> "regional", severity |-> "info",
             cities |-> CityNames(found.regional), radius |-> 100] >>
    ELSE <<>>

\* lines 106-114
RegionalZone(found, originalSeverity) ==
    IF originalSeverity = "critical" /\ Len(found.regional) > 0
    THEN << [type |-> "regional", severity |-> "info",
             cities |-> CityNames(found.regional), radius |-> 100] >>
    ELSE <<>>

\* lines 81-117
defineAlertZones(alertCoordinates, originalSeverity) ==
    LET immediateZone == getAlertZones(alertCoordinates)
    IN  ImmediateZone(immediateZone, originalSeverity)
        \o NearbyZone(immediateZone, originalSeverity)
        \o RegionalZone(immediateZone, originalSeverity)

\* lines 154-173: a row of the query result as a Subscriber.  The select list
\* has no phone_number column, so profile.phone_number is undefined.
ToSubscriber(profile) ==
    [id |-> profile.user_id, email |-> profile.email, phone |-> "",
     city |-> profile.city, state |-> profile.state,
     coordinates |-> getCityCoordinates(profile.city),
     preferences |-> [language |-> "en",
                      emailAlerts |-> profile.email_alerts,
                      smsAlerts |-> profile.sms_alerts,
                      severityLevels |-> profile.severity_levels,
                      alertTypes |-> profile.alert_types]]

\* lines 129-178: the rows whose subscription has email_alerts = true; no
\* subscriber at all when the query fails.
getActiveSubscribers(rows, error) ==
    LET Selected(profile) == profile.email_alerts
        profiles == SelectSeq(rows, Selected)
    IN  IF error THEN <<>>
        ELSE [i \in 1..Len(profiles) |-> ToSubscriber(profiles[i])]

\* lines 192-195
isInZone(subscriber, zone) ==
    \E i \in 1..Len(zone.cities) : NameMatches(subscriber.city, zone.cities[i])

\* Faulty variant: the severity filter of the subscriber is not consulted.
InZoneWantsType(subscriber, zone, originalAlert) ==
    /\ isInZone(subscriber, zone)
    /\ originalAlert.type \in subscriber.preferences.alertTypes

\* lines 190-204: the filter of one zone
InZoneAndWanted(subscriber, zone, originalAlert) ==
    /\ isInZone(subscriber, zone)
    /\ zone.severity \in subscriber.preferences.severityLevels
    /\ originalAlert.type \in subscriber.preferences.alertTypes

\* The languages the NLP processor writes content for.
supportedLanguages == {"en", "hi"}

\* Auth.tsx lines 680-815: the text with the emergency terms of the language
\* put in, and the instructions of the language appended to the description.
translateAlert(a, targetLanguage) ==
    [title |-> <<"in ", targetLanguage, ": ">> \o a.title,
     description |-> <<"in ", targetLanguage, ": ">> \o a.description
                     \o <<" instructions in ", targetLanguage>>]

\* Auth.tsx lines 655-677: a copy of the alert with a new languages map
generateMultilingualContent(a) ==
    [a EXCEPT !.languages =
        { [code |-> l,
           title |-> IF l = "en" THEN a.title ELSE translateAlert(a, l).title,
           description |-> IF l = "en" THEN a.description
                           ELSE translateAlert(a, l).description]
            : l \in supportedLanguages }]

\* Faulty variant: the nearby copy keeps the severity of the original.
createZoneSpecificAlertKeepSeverity(originalAlert, zone) ==
    LET zoneAlert ==
          IF zone.type = "nearby"
          THEN [originalAlert EXCEPT
                  !.title = <<"Nearby Emergency Alert: ">> \o originalAlert.title,
                  !.description =
                      <<"Emergency situation detected ", ToString(zone.radius),
                        "km from your location. ">>
                      \o originalAlert.description
                      \o <<" Monitor the situation and be prepared to take action if conditions change.">>]
          ELSE IF zone.type = "regional"
          THEN [originalAlert EXCEPT
                  !.title = <<"Regional Alert: ">> \o originalAlert.title,
                  !.description =
                      <<"Emergency situation in your region. ">>
                      \o originalAlert.description
                      \o <<" Stay informed and follow local authority guidance.">>,
                  !.severity = zone.severity]
          ELSE originalAlert
    IN  generateMultilingualContent(zoneAlert)

\* lines 222-240: the copy is changed, never originalAlert
createZoneSpecificAlert(originalAlert, zone) ==
    LET zoneAlert ==
          IF zone.type = "nearby"
          THEN [originalAlert EXCEPT
                  !.title = <<"Nearby Emergency Alert: ">> \o originalAlert.title,
                  !.description =
                      <<"Emergency situation detected ", ToString(zone.radius),
                        "km from your location. ">>
                      \o originalAlert.description
                      \o <<" Monitor the situation and be prepared to take action if conditions change.">>,
                  !.severity = zone.severity]
          ELSE IF zone.type = "regional"
          THEN [originalAlert EXCEPT
                  !.title = <<"Regional Alert: ">> \o originalAlert.title,
                  !.description =
                      <<"Emergency situation in your region. ">>
                      \o originalAlert.description
                      \o <<" Stay informed and follow local authority guidance.">>,
                  !.severity = zone.severity]
          ELSE originalAlert
    IN  generateMultilingualContent(zoneAlert)

\* lines 188-216, from zone k on
RECURSIVE TargetedFrom(_, _, _, _)
TargetedFrom(originalAlert, zs, subs, k) ==
    IF k > Len(zs) THEN <<>>
    ELSE LET zone == zs[k]
             Keep(subscriber) == InZoneAndWanted(subscriber, zone, originalAlert)
             zoneSubscribers == SelectSeq(subs, Keep)
         IN  (IF Len(zoneSubscribers) = 0 THEN <<>>
              ELSE << [alert |-> createZoneSpecificAlert(originalAlert, zone),
                       recipients |-> zoneSubscribers,
                       zone |-> zone] >>)
             \o TargetedFrom(originalAlert, zs, subs, k + 1)

\* lines 181-219
createTargetedAlerts(originalAlert, zs, subs) == TargetedFrom(originalAlert, zs, subs, 1)

\* lines 252-256, one recipient
FormatRecipient(subscriber) ==
    [email |-> IF subscriber.preferences.emailAlerts THEN subscriber.email ELSE "",
     phone |-> IF subscriber.preferences.smsAlerts THEN subscriber.phone ELSE "",
     language |-> subscriber.preferences.language]

\* lines 252-256
formattedRecipients(recipients) ==
    LET Reachable(r) == r.email # "" \/ r.phone # ""
    IN  SelectSeq([i \in 1..Len(recipients) |-> FormatRecipient(recipients[i])],
                  Reachable)

\* lines 270-274: { ...alert, zone: zone.type, radius: zone.radius }
ZonePayload(a, zone) ==
    [title |-> a.title, description |-> a.description, severity |-> a.severity,
     type |-> a.type, location |-> a.location, coordinates |-> a.coordinates,
     languages |-> a.languages, zone |-> zone.type, radius |-> zone.radius]

\* The body of a request that carries an alert and recipients.
AlertBody(payload, recipients) ==
    [hasAlert |-> TRUE, alert |-> payload, alerts |-> <<>>, recipients |-> recipients]

\* Faulty variant: a batch with no recipient left is requested all the same.
RECURSIVE BodiesFromEveryBatch(_, _)
BodiesFromEveryBatch(targeted, k) ==
    IF k > Len(targeted) THEN <<>>
    ELSE << AlertBody(ZonePayload(targeted[k].alert, targeted[k].zone),
                      formattedRecipients(targeted[k].recipients)) >>
         \o BodiesFromEveryBatch(targeted, k + 1)

\* lines 248-276, from batch k on: a batch with no recipient left has no request
RECURSIVE BodiesFrom(_, _)
BodiesFrom(targeted, k) ==
    IF k > Len(targeted) THEN <<>>
    ELSE LET recipients == formattedRecipients(targeted[k].recipients)
         IN  (IF Len(recipients) = 0 THEN <<>>
              ELSE << AlertBody(ZonePayload(targeted[k].alert, targeted[k].zone),
                                recipients) >>)
             \o BodiesFrom(targeted, k + 1)

----------------------------------------------------------------------------
\* Calls to EnhancedAlertService

\* Where an alert can be: on and next to the band edges around Mumbai (at 0)
\* and Navi Mumbai (at 17), and at Visakhapatnam.
AlertPoints == {0, 5, 6, 22, 25, 30, 42, 100, 101, 117, 118, 1100}

\* Coordinates and location of an alert: coordinates given, or absent with a
\* location the catalog knows, or knows by a part of its name, or does not know.
Whereabouts ==
    {[coordinates |-> At(x), location |-> Mumbai] : x \in AlertPoints}
    \cup
    {[coordinates |-> NoCoordinates, location |-> n] : n \in {Mumbai, Patna, Atlantis}}

\* severity is typed critical | warning | info, and is a string at run time.
ZonedAlerts ==
    {[title |-> <<"Flash Flood Emergency">>,
      description |-> <<"Water levels rising rapidly.">>,
      severity |-> sev, type |-> "flood",
      location |-> w.location, coordinates |-> w.coordinates, languages |-> {}]
        : sev \in Severities \cup {"extreme"}, w \in Whereabouts}

\* Rows of profiles joined with users and alert_subscriptions.
ProfilePool ==
    { [user_id |-> "u1", city |-> Mumbai, state |-> "Maharashtra", email |-> "e1",
       email_alerts |-> TRUE, sms_alerts |-> FALSE,
       severity_levels |-> {"critical", "warning", "info"}, alert_types |-> {"flood"}],
      [user_id |-> "u2", city |-> Patna, state |-> "Bihar", email |-> "e2",
       email_alerts |-> TRUE, sms_alerts |-> TRUE,
       severity_levels |-> {"critical", "warning", "info"},
       alert_types |-> {"flood", "fire"}],
      [user_id |-> "u3", city |-> toLowerCase(NaviMumbai), state |-> "Maharashtra",
       email |-> "", email_alerts |-> TRUE, sms_alerts |-> FALSE,
       severity_levels |-> {"critical", "warning", "info"}, alert_types |-> {"flood"}],
      [user_id |-> "u4", city |-> Mumbai, state |-> "Maharashtra", email |-> "e4",
       email_alerts |-> FALSE, sms_alerts |-> TRUE,
       severity_levels |-> {"critical", "warning", "info"}, alert_types |-> {"flood"}],
      [user_id |-> "u5", city |-> NaviMumbai, state |-> "Maharashtra", email |-> "e5",
       email_alerts |-> TRUE, sms_alerts |-> FALSE,
       severity_levels |-> {"critical"}, alert_types |-> {"flood"}],
      [user_id |-> "u6", city |-> Mumbai, state |-> "Maharashtra", email |-> "e6",
       email_alerts |-> TRUE, sms_alerts |-> FALSE,
       severity_levels |-> {"critical", "warning", "info"}, alert_types |-> {"fire"}] }

Directories == UNION {[1..n -> ProfilePool] : n \in 0..MaxProfiles}

\* line 300: the coordinates testLocationBasedAlert falls back to (Delhi)
DefaultCoordinates == At(3000)

\* Faulty variant: the directory is consulted again for each zone.
ZoneInputReadAgain(snapshot, current) == getActiveSubscribers(current, FALSE)

\* line 67: the list every zone is filtered against is the local of line 64,
\* whatever the directory holds by now.
ZoneInput(snapshot, current) == snapshot

\* What a fetch can come back with.
FetchAnswers == {"ok", "nonok", "neterr"}

\* Faulty variant: the wait is over with the first callback that ends.
AnyCompleted(results) ==
    Len(results) = 0 \/ \E b \in 1..Len(results) : results[b] # "pending"

\* line 290: Promise.all settles once every callback has ended
AllCompleted(results) == \A b \in 1..Len(results) : results[b] # "pending"

\* Faulty variant: a batch whose request failed rejects the join.
PromiseAllRejectsOnFailure(results) ==
    IF \E b \in 1..Len(results) : results[b] # "ok" THEN "rejected" ELSE "resolved"

\* lines 260-287, 290: each callback catches what its request throws and
\* logs a non-OK response, so no promise of the join rejects.
PromiseAll(results) == "resolved"

\* The handler while no request has come in.
HandlerIdle ==
    /\ request = [method |-> "OPTIONS", json |-> "object", hasAlert |-> FALSE,
                  hasRecipients |-> FALSE, alert |-> NoAlert, recipients |-> <<>>]
    /\ pc = "idle"
    /\ missingTwilio = <<>>
    /\ missingSmtp = <<>>
    /\ idx = 1
    /\ deliveryTasks = <<>>
    /\ deliveryMeta = <<>>
    /\ earlyErrors = <<>>
    /\ deliveryResults = <<>>
    /\ response = NoResponse
    /\ task = NoTasks
    /\ sends = NoSends
    /\ prev = NoPrev

\* The delivery sub-service while no request is being handled.
EdgeIdle == env = {} /\ HandlerIdle

\* A caller holds an alert and is about to call one of the two public methods.
ZonedInit ==
    /\ callerAlert \in ZonedAlerts
    /\ entered = callerAlert
    /\ call \in {"processAndDistributeAlert", "testLocationBasedAlert"}
    /\ directory \in Directories
    /\ zpc = "idle"
    /\ zones = <<>>
    /\ subscribers = <<>>
    /\ targetedAlerts = <<>>
    /\ posted = <<>>
    /\ zidx = 1
    /\ reads = 0
    /\ seen = <<>>
    /\ answers = <<>>
    /\ outcome = "none"
    /\ ServiceIdle
    /\ GeoIdle
    /\ EdgeIdle

\* lines 294-303: coordinates are written into the caller's alert when it has
\* none, then processAndDistributeAlert is called with the same object.
testLocationBasedAlert ==
    /\ zpc = "idle"
    /\ call = "testLocationBasedAlert"
    /\ callerAlert' =
          IF ~callerAlert.coordinates.defined
          THEN [callerAlert EXCEPT !.coordinates =
                   LET found == getCityCoordinates(callerAlert.location)
                   IN  IF found.defined THEN found ELSE DefaultCoordinates]
          ELSE callerAlert
    /\ zpc' = "process"
    /\ UNCHANGED <<entered, call, directory, zones, subscribers, targetedAlerts, posted,
                   zidx, reads, seen, answers, outcome>>
    /\ UNCHANGED <<edgeVars, serviceVars, geoVars>>

\* lines 47-64: the coordinates of the alert, the return when there are none,
\* else the zones; the method then waits for the subscribers.
processAndDistributeAlert ==
    /\ \/ zpc = "process"
       \/ zpc = "idle" /\ call = "processAndDistributeAlert"
    /\ LET alertCoordinates ==
               IF callerAlert.coordinates.defined THEN callerAlert.coordinates
               ELSE getCityCoordinates(callerAlert.location)
       IN  IF ~alertCoordinates.defined
           THEN /\ zpc' = "returned"
                /\ outcome' = "resolved"
                /\ UNCHANGED zones
           ELSE /\ zones' = defineAlertZones(alertCoordinates, callerAlert.severity)
                /\ zpc' = "subscribers"
                /\ UNCHANGED outcome
    /\ UNCHANGED <<callerAlert, entered, call, directory, subscribers, targetedAlerts,
                   posted, zidx, reads, seen, answers>>
    /\ UNCHANGED <<edgeVars, serviceVars, geoVars>>

\* line 64: the query answers, with rows or with an error.
fetchSubscribers ==
    /\ zpc = "subscribers"
    /\ \E error \in BOOLEAN : subscribers' = getActiveSubscribers(directory, error)
    /\ reads' = reads + 1
    /\ seen' = directory
    /\ zidx' = 1
    /\ zpc' = "target"
    /\ UNCHANGED <<callerAlert, entered, call, directory, zones, targetedAlerts, posted,
                   answers, outcome>>
    /\ UNCHANGED <<edgeVars, serviceVars, geoVars>>

\* lines 67, 188-216: one iteration of the loop over the zones; the method
\* waits at line 209 for the zone's alert.
targetAlerts ==
    /\ zpc = "target"
    /\ zidx <= Len(zones)
    /\ targetedAlerts' =
          targetedAlerts
          \o createTargetedAlerts(callerAlert, SubSeq(zones, zidx, zidx),
                                  ZoneInput(subscribers, directory))
    /\ zidx' = zidx + 1
    /\ UNCHANGED <<callerAlert, entered, call, directory, zpc, zones, subscribers,
                   posted, reads, seen, answers, outcome>>
    /\ UNCHANGED <<edgeVars, serviceVars, geoVars>>

\* lines 70, 243-290: the map callback runs for every batch up to its fetch,
\* so every request is made before any answer is looked at; the method then
\* waits on Promise.all.
sendLocationBasedNotifications ==
    /\ zpc = "target"
    /\ zidx > Len(zones)
    /\ posted' = BodiesFrom(targetedAlerts, 1)
    /\ answers' = [b \in 1..Len(BodiesFrom(targetedAlerts, 1)) |-> "pending"]
    /\ zpc' = "await"
    /\ UNCHANGED <<callerAlert, entered, call, directory, zones, subscribers,
                   targetedAlerts, zidx, reads, seen, outcome>>
    /\ UNCHANGED <<edgeVars, serviceVars, geoVars>>

\* lines 262-287: the fetch of one request comes back, with an OK response,
\* a non-OK response or a network error, and the callback of the batch ends.
zoneAnswered(b) ==
    /\ zpc = "await"
    /\ answers[b] = "pending"
    /\ \E a \in FetchAnswers : answers' = [answers EXCEPT ![b] = a]
    /\ UNCHANGED <<callerAlert, entered, call, directory, zpc, zones, subscribers,
                   targetedAlerts, posted, zidx, reads, seen, outcome>>
    /\ UNCHANGED <<edgeVars, serviceVars, geoVars>>

\* lines 290, 70-72: Promise.all has settled and processAndDistributeAlert
\* settles with it.
distributionCompleted ==
    /\ zpc = "await"
    /\ AllCompleted(answers)
    /\ outcome' = PromiseAll(answers)
    /\ zpc' = "returned"
    /\ UNCHANGED <<callerAlert, entered, call, directory, zones, subscribers,
                   targetedAlerts, posted, zidx, reads, seen, answers>>
    /\ UNCHANGED <<edgeVars, serviceVars, geoVars>>

ZonedNext ==
    \/ testLocationBasedAlert
    \/ processAndDistributeAlert
    \/ fetchSubscribers
    \/ targetAlerts
    \/ sendLocationBasedNotifications
    \/ \E b \in 1..Len(answers) : zoneAnswered(b)
    \/ distributionCompleted

ZonedSpec == ZonedInit /\ [][ZonedNext]_vars

----------------------------------------------------------------------------
\* Vocabulary of the properties of the zoned pipeline

\* The coordinates the run works with (lines 52-53).
AlertCoordinatesOf(a) ==
    IF a.coordinates.defined THEN a.coordinates ELSE getCityCoordinates(a.location)

\* The run has computed its zones.
Zoned == zpc \in {"subscribers", "target", "await"} \/ (zpc = "returned" /\ zones # <<>>)

\* The zones of the run that are of a kind.
ZonesOfKind(kind) == {i \in 1..Len(zones) : zones[i].type = kind}

\* Distance of a catalog entry from the alert of the run.
DistanceOf(city) == calculateDistance(AlertCoordinatesOf(callerAlert), city.coordinates)

\* C12: getAlertZones puts a catalog entry in immediate iff its distance is
\* at most 5 km, in nearby iff it is more than 5 and at most 25, in regional
\* iff it is more than 25 and at most 100, and in no set beyond 100; the
\* three sets are pairwise disjoint and hold catalog entries only, each once;
\* the zones of a run list exactly these entries.
C12_ZonesPartitionByDistance ==
    AlertCoordinatesOf(callerAlert).defined =>
        LET found == getAlertZones(AlertCoordinatesOf(callerAlert))
            I == SeqRange(found.immediate)
            N == SeqRange(found.nearby)
            Rg == SeqRange(found.regional)
            catalog == SeqRange(getMajorIndianCities)
        IN  /\ I \cap N = {} /\ I \cap Rg = {} /\ N \cap Rg = {}
            /\ (I \cup N \cup Rg) \subseteq catalog
            /\ Len(found.immediate) = Cardinality(I)
            /\ Len(found.nearby) = Cardinality(N)
            /\ Len(found.regional) = Cardinality(Rg)
            /\ \A city \in catalog :
                  /\ city \in I <=> DistanceOf(city) <= 5
                  /\ city \in N <=> (DistanceOf(city) > 5 /\ DistanceOf(city) <= 25)
                  /\ city \in Rg <=> (DistanceOf(city) > 25 /\ DistanceOf(city) <= 100)
                  /\ DistanceOf(city) > 100 => city \notin (I \cup N \cup Rg)
            /\ Zoned =>
                  \A i \in 1..Len(zones) :
                      zones[i].cities =
                          CityNames(CASE zones[i].type = "immediate" -> found.immediate
                                      [] zones[i].type = "nearby" -> found.nearby
                                      [] OTHER -> found.regional)

\* A run whose immediate zone holds an entry at exactly 5 km, with an entry
\* farther away in its nearby zone.
C12_Witness ==
    /\ Zoned
    /\ \E city \in SeqRange(getMajorIndianCities) :
          /\ DistanceOf(city) = 5
          /\ \E i \in ZonesOfKind("immediate") : city.city \in SeqRange(zones[i].cities)
    /\ ZonesOfKind("nearby") # {}

\* One step down, with info as the floor.
OneStepBelow(severity) ==
    CASE severity = "critical" -> "warning"
      [] severity = "warning" -> "info"
      [] severity = "info" -> "info"

\* C13: the nearby zone of an alert of severity critical, warning or info has
\* the severity one step below it: warning, info, info; degrading info gives
\* info.
C13_NearbyOneStepBelow ==
    /\ reduceSeverity("info") = "info"
    /\ (Zoned /\ callerAlert.severity \in Severities) =>
          \A i \in ZonesOfKind("nearby") :
              zones[i].severity = OneStepBelow(callerAlert.severity)

\* A run for a critical alert whose nearby zone has severity warning.
C13_Witness ==
    /\ Zoned
    /\ callerAlert.severity = "critical"
    /\ \E i \in ZonesOfKind("nearby") : zones[i].severity = "warning"

\* The run is over: every request it makes has been handed over.
Returned == zpc = "returned"

\* The subscriber is a recipient of a request of the run.
Receives(subscriber) ==
    \E b \in 1..Len(posted) : FormatRecipient(subscriber) \in SeqRange(posted[b].recipients)

\* The subscriber's own location (line 156) lies in the 25-100 km band.
LocatedInRegionalBand(subscriber) ==
    /\ subscriber.coordinates.defined
    /\ calculateDistance(AlertCoordinatesOf(callerAlert), subscriber.coordinates) > 25
    /\ calculateDistance(AlertCoordinatesOf(callerAlert), subscriber.coordinates) <= 100

\* A regional zone is there only for a critical alert, and has severity info.
RegionalOnlyForCritical ==
    Zoned =>
        \A i \in ZonesOfKind("regional") :
            /\ callerAlert.severity = "critical"
            /\ zones[i].severity = "info"

C15_UnknownSeverityRejected ==
    callerAlert.severity \notin Severities =>
        /\ ZonesOfKind("immediate") = {}
        /\ ZonesOfKind("nearby") = {}
        /\ posted = <<>>

\* The conditions of inclusion of a subscriber in a zone.
LocationMatches(subscriber, zone) ==
    \E name \in SeqRange(zone.cities) :
        \/ includes(toLowerCase(subscriber.city), toLowerCase(name))
        \/ includes(toLowerCase(name), toLowerCase(subscriber.city))

SeverityWanted(subscriber, zone) == zone.severity \in subscriber.preferences.severityLevels

TypeWanted(subscriber) == callerAlert.type \in subscriber.preferences.alertTypes

HasOptedInAddress(subscriber) ==
    \/ subscriber.preferences.emailAlerts /\ subscriber.email # ""
    \/ subscriber.preferences.smsAlerts /\ subscriber.phone # ""

FourConditions(subscriber, zone) ==
    /\ LocationMatches(subscriber, zone)
    /\ SeverityWanted(subscriber, zone)
    /\ TypeWanted(subscriber)
    /\ HasOptedInAddress(subscriber)

ZoneOfBody(body) == zones[CHOOSE i \in 1..Len(zones) : zones[i].type = body.alert.zone]

----------------------------------------------------------------------------
\* AlertService (src/pages/Auth.tsx, lines 981-1694)

\* Most alerts in one call of sendNotifications.
MaxAlerts == 2

Maharashtra == <<"M", "a", "h", "a", "r", "a", "s", "h", "t", "r", "a">>

Bihar == <<"B", "i", "h", "a", "r">>

DelhiNCRIndia ==
    <<"D", "e", "l", "h", "i", " ", "N", "C", "R", ",", " ", "I", "n", "d", "i", "a">>

\* The table of states the service imports (line 977), by code, name, region.
indianStates ==
    << [code |-> "MH", name |-> Maharashtra, region |-> "West"],
       [code |-> "BR", name |-> Bihar, region |-> "East"] >>

\* Alerts as fetchLatestAlerts makes them: the location is "place, state".
ServiceAlerts ==
    { [title |-> <<"Flood">>, description |-> <<"River above danger level.">>,
       severity |-> "critical", type |-> "flood",
       location |-> Mumbai \o <<",", " ">> \o Maharashtra,
       coordinates |-> At(0), languages |-> {}],
      [title |-> <<"Earthquake">>, description |-> <<"Tremors felt.">>,
       severity |-> "warning", type |-> "earthquake",
       location |-> DelhiNCRIndia,
       coordinates |-> At(3000), languages |-> {}],
      [title |-> <<"Heat wave">>, description |-> <<"Stay indoors.">>,
       severity |-> "info", type |-> "other",
       location |-> Patna \o <<",", " ">> \o Bihar,
       coordinates |-> At(2001), languages |-> {}] }

AlertLists == UNION {[1..n -> ServiceAlerts] : n \in 1..MaxAlerts}

\* An optional list of the preferences argument: not given, or given.
NotGiven == [defined |-> FALSE, value |-> {}]

Given(list) == [defined |-> TRUE, value |-> list]

\* Arguments of subscribe: email?, phone?, preferences ("" is an absent value).
SubscribeArgs ==
    { [email |-> "e1", phone |-> "p1",
       preferences |-> [state |-> "MH", region |-> "", severityLevels |-> NotGiven,
                        alertTypes |-> NotGiven, language |-> "",
                        emailAlerts |-> TRUE, smsAlerts |-> FALSE]],
      [email |-> "e2", phone |-> "",
       preferences |-> [state |-> "", region |-> "East",
                        severityLevels |-> Given({"critical", "warning", "info"}),
                        alertTypes |-> Given({"flood", "earthquake", "other"}),
                        language |-> "hi",
                        emailAlerts |-> TRUE, smsAlerts |-> FALSE]],
      [email |-> "e1", phone |-> "p1",
       preferences |-> [state |-> "", region |-> "", severityLevels |-> Given({"info"}),
                        alertTypes |-> Given({}), language |-> "en",
                        emailAlerts |-> TRUE, smsAlerts |-> TRUE]],
      [email |-> "", phone |-> "p3",
       preferences |-> [state |-> "XX", region |-> "East", severityLevels |-> NotGiven,
                        alertTypes |-> Given({"other"}), language |-> "",
                        emailAlerts |-> FALSE, smsAlerts |-> TRUE]] }

\* Faulty variant: the new entry is pushed and no entry is removed.
subscribeWithoutRemoving(list, email, phone, preferences) ==
    Append(list,
           [email |-> email, phone |-> phone,
            preferences |->
                [state |-> preferences.state,
                 region |-> preferences.region,
                 severityLevels |->
                     IF preferences.severityLevels.defined
                     THEN preferences.severityLevels.value
                     ELSE {"critical", "warning"},
                 alertTypes |->
                     IF preferences.alertTypes.defined
                     THEN preferences.alertTypes.value
                     ELSE {"earthquake", "flood", "fire", "storm"},
                 language |-> preferences.language,
                 emailAlerts |-> preferences.emailAlerts,
                 smsAlerts |-> preferences.smsAlerts]])

\* lines 1582-1600: the entry of the same (email, phone) is removed, the new
\* one is pushed with the two lists defaulted when not given.
subscribe(list, email, phone, preferences) ==
    LET Other(sub) == ~(sub.email = email /\ sub.phone = phone)
    IN  Append(SelectSeq(list, Other),
               [email |-> email, phone |-> phone,
                preferences |->
                    [state |-> preferences.state,
                     region |-> preferences.region,
                     severityLevels |->
                         IF preferences.severityLevels.defined
                         THEN preferences.severityLevels.value
                         ELSE {"critical", "warning"},
                     alertTypes |->
                         IF preferences.alertTypes.defined
                         THEN preferences.alertTypes.value
                         ELSE {"earthquake", "flood", "fire", "storm"},
                     language |-> preferences.language,
                     emailAlerts |-> preferences.emailAlerts,
                     smsAlerts |-> preferences.smsAlerts]])

\* lines 1606-1615: the state filter; a code the table does not hold filters nothing
PassesState(a, subscriber) ==
    LET known == {i \in 1..Len(indianStates) :
                     indianStates[i].code = subscriber.preferences.state}
    IN  (subscriber.preferences.state # "" /\ a.location # <<>> /\ known # {}) =>
            \A i \in known :
                includes(toLowerCase(a.location), toLowerCase(indianStates[i].name))

\* lines 1617-1627: the region filter, applied when no state is specified
PassesRegion(a, subscriber) ==
    (/\ subscriber.preferences.region # ""
     /\ subscriber.preferences.state = ""
     /\ a.location # <<>>) =>
        \E i \in 1..Len(indianStates) :
            /\ indianStates[i].region = subscriber.preferences.region
            /\ includes(toLowerCase(a.location), toLowerCase(indianStates[i].name))

\* lines 1629-1641: the severity and type filters, applied to non-empty lists
PassesPreferences(a, subscriber) ==
    /\ subscriber.preferences.severityLevels # {} =>
          a.severity \in subscriber.preferences.severityLevels
    /\ subscriber.preferences.alertTypes # {} =>
          a.type \in subscriber.preferences.alertTypes

\* lines 1603-1645
filterAlertsForSubscriber(alerts, subscriber) ==
    LET Passes(a) ==
            /\ PassesState(a, subscriber)
            /\ PassesRegion(a, subscriber)
            /\ PassesPreferences(a, subscriber)
    IN  SelectSeq(alerts, Passes)

\* lines 1541-1545: both addresses, whatever the preferences say
RecipientOf(subscriber) ==
    [email |-> subscriber.email, phone |-> subscriber.phone,
     language |-> IF subscriber.preferences.language = "" THEN "en"
                  ELSE subscriber.preferences.language]

\* No alert object: the body of sendNotifications has none.
NoPayload ==
    [title |-> <<>>, description |-> <<>>, severity |-> "", type |-> "",
     location |-> <<>>, coordinates |-> NoCoordinates, languages |-> {},
     zone |-> "", radius |-> 0]

\* lines 1556-1559: { alerts: [alert], recipients }
AlertsBody(a, recipients) ==
    [hasAlert |-> FALSE, alert |-> NoPayload, alerts |-> <<a>>, recipients |-> recipients]

\* lines 1547-1575 for one subscriber: a request for each filtered alert in
\* turn, until one of the fetches fails; made is the number of fetches made.
RequestsOf(alerts, subscriber, made) ==
    LET filteredAlerts == filterAlertsForSubscriber(alerts, subscriber)
        n == IF made < Len(filteredAlerts) THEN made ELSE Len(filteredAlerts)
    IN  [k \in 1..n |-> AlertsBody(filteredAlerts[k], <<RecipientOf(subscriber)>>)]

\* lines 1533-1578, from subscriber k on
RECURSIVE NotificationsFrom(_, _, _, _)
NotificationsFrom(list, alerts, made, k) ==
    IF k > Len(list) THEN <<>>
    ELSE RequestsOf(alerts, list[k], made[k])
         \o NotificationsFrom(list, alerts, made, k + 1)

ServiceInit ==
    /\ registry = <<>>
    /\ apc = "idle"
    /\ lastCall = {}
    /\ ZonedIdle
    /\ GeoIdle
    /\ EdgeIdle

\* What the callers remember of a call: its arguments, and whether the pair
\* had been subscribed before.
CallOf(args, calls) ==
    [email |-> args.email, phone |-> args.phone, preferences |-> args.preferences,
     again |-> \E c \in calls : c.email = args.email /\ c.phone = args.phone]

\* lines 1582-1600
Subscribe ==
    /\ \E args \in SubscribeArgs :
          /\ Len(subscribe(registry, args.email, args.phone, args.preferences))
                <= MaxProfiles
          /\ registry' = subscribe(registry, args.email, args.phone, args.preferences)
          /\ lastCall' =
                {c \in lastCall : ~(c.email = args.email /\ c.phone = args.phone)}
                \cup {CallOf(args, lastCall)}
    /\ apc' = "idle"
    /\ UNCHANGED <<zonedVars, edgeVars, geoVars>>

\* lines 1524-1579.  The requests of one subscriber are made in turn and end
\* with the first fetch that fails; posted lists them subscriber by subscriber.
SendNotifications ==
    /\ \E alerts \in AlertLists :
          \E made \in [1..Len(registry) -> 1..MaxAlerts] :
              posted' = NotificationsFrom(registry, alerts, made, 1)
    /\ apc' = "notified"
    /\ UNCHANGED <<registry, lastCall, callerAlert, entered, call, directory, zpc, zones,
                   subscribers, targetedAlerts, zidx, reads, seen, answers, outcome,
                   edgeVars, geoVars>>

ServiceNext ==
    \/ Subscribe
    \/ SendNotifications

ServiceSpec == ServiceInit /\ [][ServiceNext]_vars

----------------------------------------------------------------------------
\* Vocabulary of the properties of the requests made by the client services

\* sendNotifications has just run on the registry as it is.
Notified == apc = "notified"

\* The recipient carries no address of a channel the subscriber has not
\* opted into, and no address that is not the subscriber's.
WithinOptIns(r, email, phone, emailOptIn, smsOptIn) ==
    /\ r.email \in {"", email}
    /\ r.phone \in {"", phone}
    /\ r.email # "" => emailOptIn
    /\ r.phone # "" => smsOptIn

\* C17: in every request a client service hands to the delivery sub-service,
\* a recipient's phone is present only if the subscriber's SMS opt-in is true
\* and a recipient's email only if the subscriber's email opt-in is true.
C17_OnlyOptedInChannels ==
    /\ Notified =>
          \A b \in 1..Len(posted) : \A r \in SeqRange(posted[b].recipients) :
              \E sub \in SeqRange(registry) :
                  /\ sub.email = r.email \/ sub.phone = r.phone
                  /\ WithinOptIns(r, sub.email, sub.phone,
                                  sub.preferences.emailAlerts, sub.preferences.smsAlerts)
    /\ Returned =>
          \A b \in 1..Len(posted) : \A r \in SeqRange(posted[b].recipients) :
              \E sub \in SeqRange(subscribers) :
                  /\ sub.email = r.email \/ sub.phone = r.phone
                  /\ WithinOptIns(r, sub.email, sub.phone,
                                  sub.preferences.emailAlerts, sub.preferences.smsAlerts)

\* The catalog entries of a zone, and whether one of them is in the state.
ZoneHasLocationIn(zone, state) ==
    \E city \in SeqRange(getMajorIndianCities) :
        /\ city.city \in SeqRange(zone.cities)
        /\ city.state = state

\* The text names the state of this code, or a state of this region.
NamesStateOf(text, code) ==
    \E i \in 1..Len(indianStates) :
        /\ indianStates[i].code = code
        /\ includes(toLowerCase(text), toLowerCase(indianStates[i].name))

NamesStateOfRegion(text, region) ==
    \E i \in 1..Len(indianStates) :
        /\ indianStates[i].region = region
        /\ includes(toLowerCase(text), toLowerCase(indianStates[i].name))

RadiusOfKind(kind) ==
    CASE kind = "immediate" -> 5 [] kind = "nearby" -> 25 [] kind = "regional" -> 100

\* C19: the alert of every request made for a zone has the zone's severity,
\* the zone's kind as zone and 5, 25 or 100 as radius for immediate, nearby,
\* regional; for the immediate zone title, description and severity are those
\* of the original alert, for nearby and regional title and description are
\* rewritten around the original text.
C19_PayloadCarriesZone ==
    \A b \in 1..Len(posted) :
        LET payload == posted[b].alert
        IN  /\ payload.zone \in {"immediate", "nearby", "regional"}
            /\ \E i \in 1..Len(zones) : zones[i].type = payload.zone
            /\ payload.severity = ZoneOfBody(posted[b]).severity
            /\ payload.radius = RadiusOfKind(payload.zone)
            /\ payload.radius = ZoneOfBody(posted[b]).radius
            /\ payload.zone = "immediate" =>
                  /\ payload.title = callerAlert.title
                  /\ payload.description = callerAlert.description
                  /\ payload.severity = callerAlert.severity
            /\ payload.zone # "immediate" =>
                  /\ payload.title # callerAlert.title
                  /\ payload.description # callerAlert.description
                  /\ Len(payload.title) > Len(callerAlert.title)
                  /\ SubSeq(payload.title, 2, Len(payload.title)) = callerAlert.title
                  /\ \E k \in 1..Len(payload.description) :
                        SubSeq(payload.description, k,
                               k + Len(callerAlert.description) - 1)
                           = callerAlert.description

\* A finished run for a critical alert with a request for the immediate zone
\* and a request for the nearby zone, the latter of severity warning.
C19_Witness ==
    /\ Returned
    /\ callerAlert.severity = "critical"
    /\ \E b, c \in 1..Len(posted) :
          /\ posted[b].alert.zone = "immediate"
          /\ posted[c].alert.zone = "nearby"
          /\ posted[c].alert.severity = "warning"

\* C20: the caller's alert is never modified: at every point of a call of
\* processAndDistributeAlert or testLocationBasedAlert, and after it, every
\* field of the alert is as it was when the call was made.
C20_CallerAlertUnchanged == callerAlert = entered

----------------------------------------------------------------------------
\* The messages of the delivery sub-service

\* The sends issued for recipient r on channel c.
SendsFor(r, c) ==
    {i \in 1..Len(deliveryTasks) :
        deliveryTasks[i].rcpt = r /\ deliveryTasks[i].channel = c}

\* The alert has no content for the language the recipient is served in.
NoLocalizedEntry(r) ==
    ~\E e \in request.alert.languages : e.code = Lang(request.recipients[r])

\* C21: for a recipient whose language the alert has no localized entry for
\* (the languages map absent, or without the language, or the language empty
\* and taken as en), each open channel the recipient has an address for gets
\* its send, the message of the send carries the alert's own title and
\* description, and the send fails only by the provider's answer.
C21_MissingTranslationFallsBack ==
    \A r \in 1..Len(request.recipients) : \A c \in Channels :
        (r < idx /\ Address(r, c) # "" /\ ~GateClosed(c) /\ NoLocalizedEntry(r)) =>
            /\ SendsFor(r, c) # {}
            /\ \A i \in SendsFor(r, c) :
                  /\ deliveryTasks[i].message.title = request.alert.title
                  /\ deliveryTasks[i].message.description = request.alert.description
                  /\ deliveryTasks[i].state = "rejected" =>
                        deliveryTasks[i].answer \in {"non2xx", "neterr"}

----------------------------------------------------------------------------
\* Runs of EnhancedAlertService while the subscriber directory changes

\* The rows that come and go: a subscriber of Mumbai who wants every
\* severity, and one of Navi Mumbai who wants critical alerts only.
SnapshotProfiles == {p \in ProfilePool : p.user_id \in {"u1", "u5"}}

\* A critical alert 5 km from Navi Mumbai and 22 km from Mumbai: an
\* immediate and a nearby zone.
SnapshotAlerts ==
    {a \in ZonedAlerts : a.severity = "critical" /\ a.coordinates = At(22)}

SnapshotCaller ==
    /\ callerAlert \in SnapshotAlerts
    /\ entered = callerAlert
    /\ call \in {"processAndDistributeAlert", "testLocationBasedAlert"}
    /\ directory \in UNION {[1..n -> SnapshotProfiles] : n \in 0..MaxProfiles}
    /\ zpc = "idle"
    /\ zones = <<>>
    /\ subscribers = <<>>
    /\ targetedAlerts = <<>>
    /\ posted = <<>>
    /\ zidx = 1
    /\ reads = 0
    /\ seen = <<>>
    /\ answers = <<>>
    /\ outcome = "none"

SnapshotInit == SnapshotCaller /\ ServiceIdle /\ GeoIdle /\ EdgeIdle

\* Someone subscribes or unsubscribes: a row is added to the directory or
\* its oldest row removed, at any moment of a run or between runs.
changeDirectory ==
    /\ \/ /\ Len(directory) < MaxProfiles
          /\ \E p \in SnapshotProfiles : directory' = Append(directory, p)
       \/ /\ directory # <<>>
          /\ directory' = Tail(directory)
    /\ UNCHANGED <<callerAlert, entered, call, zpc, zones, subscribers, targetedAlerts,
                   posted, zidx, reads, seen, answers, outcome>>
    /\ UNCHANGED <<edgeVars, serviceVars, geoVars>>

\* The caller makes the call again with the same alert object: a new run,
\* whose requests are listed from the start.
runAgain ==
    /\ zpc = "returned"
    /\ entered' = callerAlert
    /\ zpc' = "idle"
    /\ zones' = <<>>
    /\ subscribers' = <<>>
    /\ targetedAlerts' = <<>>
    /\ posted' = <<>>
    /\ zidx' = 1
    /\ reads' = 0
    /\ seen' = <<>>
    /\ answers' = <<>>
    /\ outcome' = "none"
    /\ UNCHANGED <<callerAlert, call, directory>>
    /\ UNCHANGED <<edgeVars, serviceVars, geoVars>>

SnapshotNext ==
    \/ ZonedNext
    \/ changeDirectory
    \/ runAgain

SnapshotSpec == SnapshotInit /\ [][SnapshotNext]_vars

\* The subscribers of a list that the filter of the zone keeps.
KeptFor(list, zone) ==
    LET Keep(subscriber) == InZoneAndWanted(subscriber, zone, callerAlert)
    IN  SelectSeq(list, Keep)

\* The run reads the directory once, at line 64, and not before.
ReadOnce ==
    /\ reads <= 1
    /\ zpc \in {"idle", "process", "subscribers"} => reads = 0
    /\ zpc \in {"target", "await"} => reads = 1
    /\ zpc = "returned" =>
          reads = IF AlertCoordinatesOf(callerAlert).defined THEN 1 ELSE 0

\* What the run holds comes from the directory as it was when it was read.
FromSnapshot ==
    reads = 1 =>
        /\ subscribers \in {getActiveSubscribers(seen, error) : error \in BOOLEAN}
        /\ \A k \in 1..Len(targetedAlerts) :
              targetedAlerts[k].recipients = KeptFor(subscribers, targetedAlerts[k].zone)
        /\ \A i \in 1..Len(zones) :
              (i < zidx /\ KeptFor(subscribers, zones[i]) # <<>>) =>
                  \E k \in 1..Len(targetedAlerts) : targetedAlerts[k].zone = zones[i]
        /\ \A b \in 1..Len(posted) :
              posted[b].recipients =
                  formattedRecipients(KeptFor(subscribers, ZoneOfBody(posted[b])))

\* A step that changes the directory changes nothing the run holds, and the
\* step that reads the directory takes it as it is at that moment.
DirectorySteps ==
    /\ directory' # directory =>
          UNCHANGED <<subscribers, targetedAlerts, posted, seen, reads>>
    /\ reads' = reads + 1 => seen' = directory

\* C22: a run of processAndDistributeAlert reads the subscriber directory
\* exactly once; the recipient list of every zone of the run, and of every
\* request made for a zone, is the zone's filter applied to that one reading,
\* whatever the directory has become since; a later run reads it anew.
C22_OneSnapshotPerRun == [][DirectorySteps]_vars /\ [](ReadOnce /\ FromSnapshot)

\* A finished run with a targeted alert for each of two zones, made after the
\* directory had changed from what the run read: the recipient the run read
\* is in both, and the directory no longer holds a row.
C22_Witness ==
    /\ Returned
    /\ reads = 1
    /\ seen # <<>>
    /\ directory = <<>>
    /\ Len(targetedAlerts) = 2
    /\ Len(posted) = 2

----------------------------------------------------------------------------
\* The client services and the delivery sub-service together: what a client
\* posts is what the handler parses.

\* JSON.stringify of the body and req.json() at the handler.  A field that is
\* undefined is left out by stringify and is absent on arrival; the body of
\* sendNotifications has `alerts` and no `alert`, so `alert` destructures to
\* undefined.  Of the alert the handler reads what its messages and its
\* response are made of.
AsRequest(body) ==
    [method |-> "POST", json |-> "object",
     hasAlert |-> body.hasAlert,
     hasRecipients |-> TRUE,
     alert |-> IF body.hasAlert
               THEN [zone |-> body.alert.zone, radius |-> body.alert.radius,
                     title |-> body.alert.title,
                     description |-> body.alert.description,
                     hasLanguages |-> TRUE, languages |-> body.alert.languages]
               ELSE NoAlert,
     recipients |-> body.recipients]

\* The caller works with EnhancedAlertService, or (call none) with
\* AlertService; the sub-service has all of its configuration or none.
WireInit ==
    /\ SnapshotCaller \/ ZonedIdle
    /\ ServiceIdle
    /\ GeoIdle
    /\ env \in {{}, EnvVars}
    /\ HandlerIdle

\* A request a client has made arrives at the handler, which is free.
Deliver(b) ==
    /\ pc = "done" \/ (pc = "idle" /\ request.method = "OPTIONS")
    /\ request' = AsRequest(posted[b])
    /\ pc' = "idle"
    /\ missingTwilio' = <<>>
    /\ missingSmtp' = <<>>
    /\ idx' = 1
    /\ deliveryTasks' = <<>>
    /\ deliveryMeta' = <<>>
    /\ earlyErrors' = <<>>
    /\ deliveryResults' = <<>>
    /\ response' = NoResponse
    /\ task' = NoTasks
    /\ sends' = NoSends
    /\ UNCHANGED <<env, prev>>
    /\ UNCHANGED clientVars

WireNext ==
    \/ ZonedNext
    \/ call = "none" /\ ServiceNext
    \/ \E b \in 1..Len(posted) : Deliver(b)
    \/ Start
    \/ ProcessRecipient
    \/ AwaitAll
    \/ \E i \in 1..Len(deliveryTasks) : Settle(i)
    \/ Respond

WireSpec == WireInit /\ [][WireNext]_vars

\* The handler has answered a request of a client service.
Answered == pc = "done" /\ request.method = "POST"

\* C23: every request a client service sends carries a recipients list and
\* a single alert object, and the sub-service answers it with the 200
\* delivery report, never with the 500 response.
C23_RequestsConformToWireContract ==
    Answered =>
        /\ request.hasRecipients
        /\ request.hasAlert
        /\ IsReport
        /\ response.status = 200

----------------------------------------------------------------------------
\* Calls to EnhancedAlertService with coordinates that are no numbers

\* Alerts whose coordinates are there and are NaN, of every severity, and
\* an alert with coordinates that are numbers.
InvalidAlerts ==
    {[a EXCEPT !.coordinates = NaNCoordinates] :
        a \in {z \in ZonedAlerts : z.coordinates = At(0)}}
    \cup SnapshotAlerts

InvalidInit ==
    /\ callerAlert \in InvalidAlerts
    /\ entered = callerAlert
    /\ call \in {"processAndDistributeAlert", "testLocationBasedAlert"}
    /\ directory \in Directories
    /\ zpc = "idle"
    /\ zones = <<>>
    /\ subscribers = <<>>
    /\ targetedAlerts = <<>>
    /\ posted = <<>>
    /\ zidx = 1
    /\ reads = 0
    /\ seen = <<>>
    /\ answers = <<>>
    /\ outcome = "none"
    /\ ServiceIdle
    /\ GeoIdle
    /\ EdgeIdle

InvalidSpec == InvalidInit /\ [][ZonedNext]_vars

\* The alert of the call has coordinates that are no numbers.
InvalidCoordinates ==
    /\ callerAlert.coordinates.defined
    /\ NaN \in {callerAlert.coordinates.lat, callerAlert.coordinates.lng}

\* C24: a call of processAndDistributeAlert with NaN coordinates ends with a
\* rejection before the zones are classified: it never gets to classify the
\* catalog, to query the subscribers or to make a request.
C24_InvalidCoordinatesRejected ==
    InvalidCoordinates =>
        /\ zpc \notin {"subscribers", "target", "await"}
        /\ reads = 0
        /\ posted = <<>>
        /\ zpc = "returned" => outcome = "rejected"

----------------------------------------------------------------------------
\* Measuring distances: LocationService.calculateDistance on its own.

\* The six corners the octahedron has north of the equator or on it, and three
\* points of the prime meridian that are not corners.
MeasuredPoints ==
    { [defined |-> TRUE, lat |-> la, lng |-> lo] :
          la \in {0, QuarterTurn},
          lo \in {0, QuarterTurn, 2 * QuarterTurn, 3 * QuarterTurn} }
    \cup {At(17), At(1100), At(2001)}

\* The pairs the model computes: two corners, or two points of one meridian.
Measurable(p, q) ==
    \/ OnOctahedron(p) /\ OnOctahedron(q)
    \/ p.lng = q.lng

DistanceInit ==
    /\ pointA \in MeasuredPoints
    /\ pointB \in MeasuredPoints
    /\ Measurable(pointA, pointB)
    /\ measured = NotMeasured
    /\ ZonedIdle
    /\ ServiceIdle
    /\ EdgeIdle

\* The distance is taken in both orders and from each point to itself.
measure ==
    /\ ~measured.done
    /\ measured' = [done |-> TRUE,
                    ab |-> calculateDistance(pointA, pointB),
                    ba |-> calculateDistance(pointB, pointA),
                    aa |-> calculateDistance(pointA, pointA),
                    bb |-> calculateDistance(pointB, pointB)]
    /\ UNCHANGED <<pointA, pointB, zonedVars, serviceVars, edgeVars>>

DistanceSpec == DistanceInit /\ [][measure]_vars

----------------------------------------------------------------------------
\* Zones, targeted alerts and requests for what there is to deliver

\* The subscriber has an address of a channel that is switched on for them.
HoldsOptedInAddress(subscriber) ==
    \/ subscriber.preferences.emailAlerts /\ subscriber.email # ""
    \/ subscriber.preferences.smsAlerts /\ subscriber.phone # ""

\* The subscribers of the run that match zone i: in one of its cities and
\* wanting its severity and the type of the alert.
MatchingSubscribers(i) ==
    {k \in 1..Len(subscribers) : InZoneAndWanted(subscribers[k], zones[i], callerAlert)}

\* The targeted alerts and the requests of the run made for zone i.
TargetedFor(i) == {t \in 1..Len(targetedAlerts) : targetedAlerts[t].zone = zones[i]}
RequestsFor(i) == {b \in 1..Len(posted) : posted[b].alert.zone = zones[i].type}

\* The run has gone through its zones and made its requests.
Requested == zpc \in {"await", "returned"}

C26_WitnessEmptyZone ==
    /\ Requested
    /\ subscribers # <<>>
    /\ \E i \in 1..Len(zones) : MatchingSubscribers(i) = {}
    /\ Len(posted) > 0

----------------------------------------------------------------------------
\* Task metadata and issued sends

\* The issued sends up to send i that were rejected.
RejectedUpTo(i) == {j \in 1..i : deliveryTasks[j].state = "rejected"}

\* C27: deliveryMeta and deliveryTasks always have the same length, and the
\* i-th metadata has the channel, address and language of the i-th issued
\* send; in the report, the errors entries after the gated ones stand, in
\* order, for the rejected sends, each with the channel, address and reason
\* of its own send.
C27_MetadataAlignedWithSends ==
    /\ Len(deliveryMeta) = Len(deliveryTasks)
    /\ \A i \in 1..Len(deliveryTasks) :
          /\ i <= Len(deliveryMeta)
          /\ deliveryMeta[i].channel = deliveryTasks[i].channel
          /\ deliveryMeta[i].recipient = deliveryTasks[i].to
          /\ deliveryMeta[i].language = deliveryTasks[i].language
          /\ deliveryTasks[i].to =
                Address(deliveryTasks[i].rcpt, deliveryTasks[i].channel)
    /\ IsReport =>
          /\ Len(response.errors) =
                Len(earlyErrors) + Cardinality(RejectedUpTo(Len(deliveryTasks)))
          /\ \A i \in RejectedUpTo(Len(deliveryTasks)) :
                LET e == response.errors[Len(earlyErrors) + Cardinality(RejectedUpTo(i))]
                IN  /\ e.channel = deliveryTasks[i].channel
                    /\ e.recipient = deliveryTasks[i].to
                    /\ e.reason = deliveryTasks[i].reason

\* A report after a closed Email gate, a first SMS that was delivered and a
\* second, to another number, that was rejected.
C27_Witness ==
    /\ IsReport
    /\ Len(earlyErrors) > 0
    /\ Len(deliveryTasks) = 2
    /\ deliveryTasks[1].state = "fulfilled"
    /\ deliveryTasks[2].state = "rejected"
    /\ deliveryTasks[1].to # deliveryTasks[2].to

----------------------------------------------------------------------------
\* One zone per subscriber

\* The targeted alerts of the run that list the subscriber.
ZonesListing(id) ==
    {t \in 1..Len(targetedAlerts) :
        \E k \in 1..Len(targetedAlerts[t].recipients) :
            targetedAlerts[t].recipients[k].id = id}

\* The requests of the run that go to the address.
RequestsTo(email) ==
    {b \in 1..Len(posted) :
        \E k \in 1..Len(posted[b].recipients) : posted[b].recipients[k].email = email}

----------------------------------------------------------------------------
\* The zone requests side by side

\* A step that ends the request of one zone ends that one only: the answers
\* of the other requests, the requests themselves and the outcome of the call
\* stay as they were.
AnswerIsolated ==
    answers' # answers /\ zpc = "await" =>
        /\ Len(answers') = Len(answers)
        /\ Cardinality({b \in 1..Len(answers) : answers'[b] # answers[b]}) = 1
        /\ \A b \in 1..Len(answers) :
              answers'[b] # answers[b] => answers[b] = "pending"
        /\ posted' = posted
        /\ outcome' = outcome
        /\ zpc' = zpc

\* While the call waits, every request has been issued, and each one still
\* out can come back whatever the others came back with.
AllIssuedAndFree ==
    zpc = "await" =>
        /\ Len(answers) = Len(posted)
        /\ posted = BodiesFrom(targetedAlerts, 1)
        /\ outcome = "none"
        /\ \A b \in 1..Len(answers) : answers[b] = "pending" => ENABLED zoneAnswered(b)

\* The call has returned only with every request ended, and resolved.
ReturnedAfterAll ==
    zpc = "returned" =>
        /\ Len(answers) = Len(posted)
        /\ \A b \in 1..Len(answers) : answers[b] \in FetchAnswers
        /\ outcome = "resolved"

\* C29: the requests of all zones are issued before any answer is awaited;
\* a non-OK response or a network error on one of them leaves the others
\* free to complete and does not make processAndDistributeAlert reject; the
\* call returns only after every request has ended.
C29_ZoneRequestsIsolated ==
    [][AnswerIsolated]_vars /\ [](AllIssuedAndFree /\ ReturnedAfterAll)

\* A returned call with two requests, the first of which met a network error
\* and the second of which was answered OK.
C29_Witness ==
    /\ zpc = "returned"
    /\ outcome = "resolved"
    /\ Len(posted) = 2
    /\ answers[1] = "neterr"
    /\ answers[2] = "ok"

----------------------------------------------------------------------------
\* The subscriber list after any sequence of subscribe calls

\* The entries of the list for the pair.
EntriesFor(email, phone) ==
    {i \in 1..Len(registry) : registry[i].email = email /\ registry[i].phone = phone}

\* The entry carries the preferences of the call, the two lists defaulted
\* when the call gave none.
CarriesPreferencesOf(entry, c) ==
    /\ entry.preferences.state = c.preferences.state
    /\ entry.preferences.region = c.preferences.region
    /\ entry.preferences.language = c.preferences.language
    /\ entry.preferences.emailAlerts = c.preferences.emailAlerts
    /\ entry.preferences.smsAlerts = c.preferences.smsAlerts
    /\ c.preferences.severityLevels.defined =>
          entry.preferences.severityLevels = c.preferences.severityLevels.value
    /\ ~c.preferences.severityLevels.defined =>
          entry.preferences.severityLevels = {"critical", "warning"}
    /\ c.preferences.alertTypes.defined =>
          entry.preferences.alertTypes = c.preferences.alertTypes.value
    /\ ~c.preferences.alertTypes.defined =>
          entry.preferences.alertTypes = {"earthquake", "flood", "fire", "storm"}

\* C30: after any sequence of subscribe calls the list holds exactly one
\* entry for each (email, phone) that was subscribed and none for any other;
\* the entry carries the preferences of the latest call for its pair,
\* severityLevels defaulting to critical and warning and alertTypes to
\* earthquake, flood, fire and storm when not given; a call for one pair
\* leaves the entries of the other pairs as they were.
C30_OneEntryPerPairLatestPreferences ==
    /\ \A c \in lastCall :
          /\ Cardinality(EntriesFor(c.email, c.phone)) = 1
          /\ \A i \in EntriesFor(c.email, c.phone) : CarriesPreferencesOf(registry[i], c)
    /\ \A i \in 1..Len(registry) :
          \E c \in lastCall : i \in EntriesFor(c.email, c.phone)

\* Two pairs are subscribed; one of them was subscribed again, with lists of
\* its own in place of the defaults, and the entry of the other is in front.
C30_Witness ==
    /\ Len(registry) = 2
    /\ registry[1].email = "e2"
    /\ \E c \in lastCall :
          /\ c.again
          /\ c.email = "e1"
          /\ c.preferences.severityLevels.defined
          /\ registry[2].email = "e1"
          /\ registry[2].preferences.severityLevels = {"info"}
          /\ registry[2].preferences.alertTypes = {}

====
